---- MODULE Spec2Model ----
(***************************************************************************)
(* tuicr: the review application's navigation state (src/app.rs), the      *)
(* review session (src/model/review.rs), the unified renderer's row        *)
(* sequence (src/ui/app_layout.rs) and the unified-diff parser             *)
(* (src/vcs/jj/diff_parser.rs).                                            *)
(*                                                                         *)
(* The specifications of the module share its variables:                  *)
(*   Spec        the App after App::new, driven by the navigation actions  *)
(*   ParseSpec   parse_unified_diff run line by line over a bounded set of *)
(*               diff texts                                                *)
(*   ReviewSpec, UndoSpec, SessionSpec, ClockSpec                          *)
(*               the review session and its timestamps                     *)
(*   CallSpec, EmptySpec                                                   *)
(*               the navigation calls with the state before each call      *)
(*   AlignSpec   the side-by-side renderer over bounded hunks              *)
(*   FetchSpec   fetch_context_lines of the jj and hg backends             *)
(*   StartSpec   main up to the event loop, and the backends' diffs        *)
(*   LoopSpec, SaveSpec                                                    *)
(*               the event loop of main                                    *)
(*   MalformedSpec, HeaderSpec                                             *)
(*               the parser over malformed hunks and over path headers     *)
(* Text is modelled by TLA+ strings; a diff text is the sequence of its    *)
(* lines (what str::lines() yields).  Option<T> is a sequence of length    *)
(* at most one: None is <<>>, Some(x) is <<x>>.                            *)
(***************************************************************************)
EXTENDS Integers, Sequences, FiniteSets, TLC

VARIABLES
    \* ---- App (src/app.rs) ----
    diff_files,        \* App.diff_files: Vec<DiffFile>
    session_files,     \* App.session.files: HashMap<PathBuf, FileReview>
    scroll_offset,     \* App.diff_state.scroll_offset
    current_file_idx,  \* App.diff_state.current_file_idx (0-based)
    selected,          \* App.file_list_state.selected (0-based)
    dirty,             \* App.dirty
    updated_at,        \* App.session.updated_at, on the clock `now`
    now,               \* the wall clock read by Utc::now()
    snapshot,          \* what a specification records of the call before the
                       \* current state (None where nothing is recorded)
    \* ---- the process around the App (src/main.rs, src/git, src/vcs) ----
    repo,              \* what the process finds on disk: repository and file contents
    fetched,           \* the last fetch_context_lines call and what it returned
    outcome,           \* what the backend call / App::new returned, None before it
    loop_pc,           \* where main is: "idle", "start", "render", "poll", "check", "exited"
    exit_code,         \* the process exit code, None while it runs
    should_quit,       \* App.should_quit
    input_mode,        \* App.input_mode
    command_buffer,    \* App.command_buffer
    saved,             \* the review session as last written to disk, None if never
    \* ---- parse_unified_diff (src/vcs/jj/diff_parser.rs) ----
    diff_text,         \* the lines of the input text
    pos,               \* number of lines the peekable iterator has yielded
    pc,                \* position of the parser in its loops
    files,             \* files: Vec<DiffFile> being built
    old_path,          \* parse_file_header: old_path
    new_path,          \* parse_file_header: new_path
    status,            \* parse_file_header: status
    hunks,             \* hunks of the file section being parsed
    hunk,              \* parse_hunk: the hunk being collected
    result             \* the Result returned: "Ok" or "NoChanges"

ioVars == <<repo, fetched, outcome, loop_pc, exit_code, should_quit, input_mode,
           command_buffer, saved>>
auxVars == <<updated_at, now, snapshot, ioVars>>
appVars == <<diff_files, session_files, scroll_offset, current_file_idx, selected, dirty,
             updated_at, now, snapshot, ioVars>>
parseVars == <<diff_text, pos, pc, files, old_path, new_path, status, hunks, hunk, result>>
vars == <<diff_files, session_files, scroll_offset, current_file_idx, selected, dirty,
          updated_at, now, snapshot, ioVars,
          diff_text, pos, pc, files, old_path, new_path, status, hunks, hunk, result>>

-----------------------------------------------------------------------------
(* Bounds of the model *)

MaxFiles == 2
MaxScroll == 18
MaxComments == 1
MaxLines == 3
MaxBody == 3

-----------------------------------------------------------------------------
(* Generic helpers *)

None == <<>>
Some(x) == <<x>>
IsSome(o) == o # <<>>
IsNone(o) == o = <<>>

Max2(a, b) == IF a >= b THEN a ELSE b
Min2(a, b) == IF a <= b THEN a ELSE b

\* usize::saturating_sub
SatSub(a, b) == IF a >= b THEN a - b ELSE 0

RECURSIVE SumSeq(_)
SumSeq(s) == IF s = <<>> THEN 0 ELSE Head(s) + SumSeq(Tail(s))

RECURSIVE Flatten(_)
Flatten(ss) == IF ss = <<>> THEN <<>> ELSE Head(ss) \o Flatten(Tail(ss))

DigitChars == <<"0", "1", "2", "3", "4", "5", "6", "7", "8", "9">>

\* decimal text of a natural number (format!("{}", n))
RECURSIVE NumStr(_)
NumStr(n) == IF n < 10 THEN DigitChars[n + 1]
             ELSE NumStr(n \div 10) \o DigitChars[(n % 10) + 1]

-----------------------------------------------------------------------------
(* The diff model: DiffLine, DiffHunk, DiffFile *)

DiffLine(origin, content, old_lineno, new_lineno) ==
    [origin |-> origin, content |-> content,
     old_lineno |-> old_lineno, new_lineno |-> new_lineno]

DiffHunk(header, lines, old_start, old_count, new_start, new_count) ==
    [header |-> header, lines |-> lines,
     old_start |-> old_start, old_count |-> old_count,
     new_start |-> new_start, new_count |-> new_count]

DiffFile(op, np, st, hs, bin) ==
    [old_path |-> op, new_path |-> np, status |-> st, hunks |-> hs, is_binary |-> bin]

\* DiffFile::display_path: the new path if present, else the old path
display_path(file) ==
    IF IsSome(file.new_path) THEN file.new_path[1] ELSE file.old_path[1]

-----------------------------------------------------------------------------
(* The review session (src/model/review.rs) *)

\* FileReview::new
FileReview_new(path, st) ==
    [path |-> path, reviewed |-> FALSE, status |-> st,
     file_comments |-> <<>>, line_comments |-> <<>>]

\* FileReview::comment_count
comment_count(review) ==
    Len(review.file_comments)
    + SumSeq([k \in 1..Cardinality(DOMAIN review.line_comments) |->
                Len(review.line_comments[
                    CHOOSE l \in DOMAIN review.line_comments :
                        Cardinality({m \in DOMAIN review.line_comments : m < l}) = k - 1])])

\* FileReview::add_file_comment: file_comments.push(comment)
FileReview_add_file_comment(review, comment) ==
    [review EXCEPT !.file_comments = Append(@, comment)]

\* add_line_comment with insert(line, vec![comment]) in place of
\* entry(line).or_default().push(comment): the line's list is replaced
FileReview_add_line_comment_replaces(review, line, comment) ==
    [review EXCEPT !.line_comments =
        [l \in (DOMAIN @) \cup {line} |-> IF l = line THEN <<comment>> ELSE @[l]]]

\* FileReview::add_line_comment: line_comments.entry(line).or_default().push(comment)
FileReview_add_line_comment(review, line, comment) ==
    [review EXCEPT !.line_comments =
        [l \in (DOMAIN @) \cup {line} |->
            IF l = line
            THEN Append(IF line \in DOMAIN @ THEN @[line] ELSE <<>>, comment)
            ELSE @[l]]]

\* add_file with insert(path, FileReview::new(..)) in place of
\* entry(path).or_insert_with(..): an existing entry is overwritten
add_file_overwrites(sf, path, st) ==
    [p \in (DOMAIN sf) \cup {path} |->
        IF p = path THEN FileReview_new(path, st) ELSE sf[p]]

\* ReviewSession::add_file: entry(path).or_insert_with(FileReview::new)
add_file(sf, path, st) ==
    IF path \in DOMAIN sf THEN sf ELSE sf @@ (path :> FileReview_new(path, st))

\* ReviewSession::total_files
total_files == Cardinality(DOMAIN session_files)

\* ReviewSession::get_file_mut
get_file_mut(path) ==
    IF path \in DOMAIN session_files THEN Some(session_files[path]) ELSE None

\* ReviewSession::is_file_reviewed
is_file_reviewed(path) ==
    path \in DOMAIN session_files /\ session_files[path].reviewed

\* ReviewSession::reviewed_count
reviewed_count == Cardinality({p \in DOMAIN session_files : session_files[p].reviewed})

\* number of comments held by the whole session
TotalComments ==
    LET ps == DOMAIN session_files
        RECURSIVE Tot(_)
        Tot(S) == IF S = {} THEN 0
                  ELSE LET p == CHOOSE q \in S : TRUE
                       IN comment_count(session_files[p]) + Tot(S \ {p})
    IN Tot(ps)

\* A comment: its optional side and the number of rows
\* comment_panel::format_comment_lines renders it to (wrapped text, at least 1).
Comments ==
    {[side |-> None, rows |-> 2], [side |-> Some("Old"), rows |-> 1]}

\* line numbers a line comment is anchored to
CommentLines == {2}

-----------------------------------------------------------------------------
(* Changesets the App is constructed with (git::get_working_tree_diff
   returns a non-empty list or App::new fails) *)

PathOf(k) == "f" \o NumStr(k)

\* a deleted binary file: no hunks, only the old path
BinaryShape(k) == DiffFile(Some(PathOf(k)), None, "Deleted", <<>>, TRUE)

\* a modified text file with two hunks
TextShape(k) ==
    DiffFile(Some(PathOf(k)), Some(PathOf(k)), "Modified",
        << DiffHunk("@@ -1,2 +1,2 @@",
                    << DiffLine("Context", "a", Some(1), Some(1)),
                       DiffLine("Deletion", "b", Some(2), None),
                       DiffLine("Addition", "c", None, Some(2)) >>,
                    1, 2, 1, 2),
           DiffHunk("@@ -9,0 +10 @@",
                    << DiffLine("Addition", "d", None, Some(10)) >>,
                    9, 0, 10, 1) >>,
        FALSE)

\* a renamed file whose content did not change: not binary, no hunks
EmptyShape(k) ==
    DiffFile(Some("g" \o NumStr(k)), Some(PathOf(k)), "Renamed", <<>>, FALSE)

Shapes == {"binary", "text"}

ShapeFile(shape, k) ==
    IF shape = "binary" THEN BinaryShape(k)
    ELSE IF shape = "text" THEN TextShape(k)
    ELSE EmptyShape(k)

Changesets ==
    UNION { { [k \in 1..n |-> ShapeFile(sh[k], k)] : sh \in [1..n -> Shapes] }
            : n \in 1..MaxFiles }

\* the changesets of the review specifications: the three shapes
ReviewShapes == {"binary", "text", "empty"}
ReviewChangesets ==
    UNION { { [k \in 1..n |-> ShapeFile(sh[k], k)] : sh \in [1..n -> ReviewShapes] }
            : n \in 1..MaxFiles }

\* App::new creating an entry for the first DiffFile only, the others being
\* left to a later lookup
AddAllFiles_FirstOnly(sf, fs) ==
    IF fs = <<>> THEN sf
    ELSE add_file(sf, display_path(Head(fs)), Head(fs).status)

\* App::new, lines 60-63: one add_file per DiffFile
RECURSIVE AddAllFiles(_, _)
AddAllFiles(sf, fs) ==
    IF fs = <<>> THEN sf
    ELSE AddAllFiles(add_file(sf, display_path(Head(fs)), Head(fs).status), Tail(fs))

-----------------------------------------------------------------------------
(* Navigation (src/app.rs) *)

\* App::current_file_path: None when current_file_idx is out of range
current_file_path ==
    IF current_file_idx < Len(diff_files)
    THEN Some(display_path(diff_files[current_file_idx + 1]))
    ELSE None

\* App::file_render_height
file_render_height(file) ==
    LET header_lines == 2
        content_lines == SumSeq([h \in 1..Len(file.hunks) |-> Len(file.hunks[h].lines) + 1])
    IN header_lines + Max2(content_lines, 1)

\* calculate_file_scroll_offset with the `break` after the addition: the
\* height of file_idx itself is counted too
calculate_file_scroll_offset_through_file(file_idx) ==
    SumSeq([i \in 1..Min2(file_idx + 1, Len(diff_files)) |->
               file_render_height(diff_files[i])])

\* App::calculate_file_scroll_offset: heights of the files before file_idx
calculate_file_scroll_offset(file_idx) ==
    SumSeq([i \in 1..Min2(file_idx, Len(diff_files)) |-> file_render_height(diff_files[i])])

\* App::update_current_file_from_scroll: the index it assigns to
\* current_file_idx and selected for the given scroll offset (the loop over
\* the files, i is the 1-based position of the file looked at)
RECURSIVE ScrollWalk(_, _, _)
ScrollWalk(i, cumulative, offset) ==
    IF i > Len(diff_files)
    THEN IF diff_files # <<>> THEN Len(diff_files) - 1 ELSE current_file_idx
    ELSE LET height == file_render_height(diff_files[i])
         IN IF cumulative + height > offset
            THEN i - 1
            ELSE ScrollWalk(i + 1, cumulative + height, offset)

\* update_current_file_from_scroll without lines 172 and 179: the file list
\* selection is not moved with the current file
update_current_file_from_scroll_keeps_selected(offset) ==
    /\ current_file_idx' = ScrollWalk(1, 0, offset)
    /\ selected' = selected

\* selected follows current_file_idx in every assignment of the walk, except
\* on an empty changeset where neither is assigned
update_current_file_from_scroll(offset) ==
    /\ current_file_idx' = ScrollWalk(1, 0, offset)
    /\ selected' = IF diff_files # <<>> THEN ScrollWalk(1, 0, offset) ELSE selected

\* the body of App::scroll_down (the offsets explored stop at MaxScroll)
scroll_down_body(lines) ==
    /\ scroll_offset + lines <= MaxScroll
    /\ scroll_offset' = scroll_offset + lines
    /\ update_current_file_from_scroll(scroll_offset + lines)

\* App::scroll_down
scroll_down(lines) ==
    /\ scroll_down_body(lines)
    /\ UNCHANGED <<diff_files, session_files, dirty>>
    /\ UNCHANGED auxVars
    /\ UNCHANGED parseVars

\* the body of App::scroll_up
scroll_up_body(lines) ==
    /\ scroll_offset' = SatSub(scroll_offset, lines)
    /\ update_current_file_from_scroll(SatSub(scroll_offset, lines))

\* App::scroll_up
scroll_up(lines) ==
    /\ scroll_up_body(lines)
    /\ UNCHANGED <<diff_files, session_files, dirty>>
    /\ UNCHANGED auxVars
    /\ UNCHANGED parseVars

\* jump_to_file with idx.min(len - 1) in place of the range check: an index
\* past the end lands on the last file
jump_to_file_body_clamps(idx) ==
    IF diff_files # <<>>
    THEN LET clamped == Min2(idx, Len(diff_files) - 1)
         IN /\ current_file_idx' = clamped
            /\ scroll_offset' = calculate_file_scroll_offset(clamped)
            /\ selected' = clamped
    ELSE UNCHANGED <<current_file_idx, scroll_offset, selected>>

\* the body of App::jump_to_file
jump_to_file_body(idx) ==
    IF idx < Len(diff_files)
    THEN /\ current_file_idx' = idx
         /\ scroll_offset' = calculate_file_scroll_offset(idx)
         /\ selected' = idx
    ELSE UNCHANGED <<current_file_idx, scroll_offset, selected>>

\* App::jump_to_file
jump_to_file(idx) ==
    /\ jump_to_file_body(idx)
    /\ UNCHANGED <<diff_files, session_files, dirty>>
    /\ UNCHANGED auxVars
    /\ UNCHANGED parseVars

\* next_file wrapping around to file 0 after the last file
next_file_target_wraps ==
    IF diff_files = <<>> THEN 0 ELSE (current_file_idx + 1) % Len(diff_files)

\* App::next_file, lines 139-140: the index handed to jump_to_file
next_file_target == Min2(current_file_idx + 1, SatSub(Len(diff_files), 1))

\* App::next_file
next_file == jump_to_file(next_file_target)

\* App::prev_file, line 145: the index handed to jump_to_file
prev_file_target == SatSub(current_file_idx, 1)

\* App::prev_file
prev_file == jump_to_file(prev_file_target)

\* toggle_reviewed without line 93: the App is not marked dirty
toggle_reviewed_body_not_dirty ==
    /\ IF IsSome(current_file_path) /\ current_file_path[1] \in DOMAIN session_files
       THEN /\ session_files' =
                [session_files EXCEPT ![current_file_path[1]].reviewed = ~@]
            /\ UNCHANGED dirty
       ELSE UNCHANGED <<session_files, dirty>>
    /\ UNCHANGED <<diff_files, scroll_offset, current_file_idx, selected>>

\* toggle_reviewed with line 92 setting the flag instead of flipping it
toggle_reviewed_body_marks_only ==
    /\ IF IsSome(current_file_path) /\ current_file_path[1] \in DOMAIN session_files
       THEN /\ session_files' =
                [session_files EXCEPT ![current_file_path[1]].reviewed = TRUE]
            /\ dirty' = TRUE
       ELSE UNCHANGED <<session_files, dirty>>
    /\ UNCHANGED <<diff_files, scroll_offset, current_file_idx, selected>>

\* the body of App::toggle_reviewed: what it does to the App
toggle_reviewed_body ==
    /\ IF IsSome(current_file_path) /\ current_file_path[1] \in DOMAIN session_files
       THEN /\ session_files' =
                [session_files EXCEPT ![current_file_path[1]].reviewed = ~@]
            /\ dirty' = TRUE
       ELSE UNCHANGED <<session_files, dirty>>
    /\ UNCHANGED <<diff_files, scroll_offset, current_file_idx, selected>>

\* App::toggle_reviewed
toggle_reviewed ==
    /\ toggle_reviewed_body
    /\ UNCHANGED auxVars
    /\ UNCHANGED parseVars

\* FileReview::add_file_comment on the current file's review
add_file_comment(comment) ==
    /\ TotalComments < MaxComments
    /\ IsSome(current_file_path) /\ current_file_path[1] \in DOMAIN session_files
    /\ session_files' =
         [session_files EXCEPT ![current_file_path[1]] =
             FileReview_add_file_comment(@, comment)]
    /\ UNCHANGED <<diff_files, scroll_offset, current_file_idx, selected, dirty>>
    /\ UNCHANGED auxVars
    /\ UNCHANGED parseVars

\* FileReview::add_line_comment on the current file's review
add_line_comment(line, comment) ==
    /\ TotalComments < MaxComments
    /\ IsSome(current_file_path) /\ current_file_path[1] \in DOMAIN session_files
    /\ session_files' =
         [session_files EXCEPT ![current_file_path[1]] =
             FileReview_add_line_comment(@, line, comment)]
    /\ UNCHANGED <<diff_files, scroll_offset, current_file_idx, selected, dirty>>
    /\ UNCHANGED auxVars
    /\ UNCHANGED parseVars

-----------------------------------------------------------------------------
(* The unified renderer's flattened row sequence
   (src/ui/app_layout.rs, render_unified_diff) *)

\* one pushed Line: what it shows and where it comes from (file is the
\* 0-based file index, hunk and line are 1-based positions, 0 when absent)
Row(kind, file, h, l) == [kind |-> kind, file |-> file, hunk |-> h, line |-> l]

\* comment_panel::format_comment_lines: the rendered lines of one comment,
\* an externally determined positive number of them
format_comment_lines(comment, row) == [j \in 1..comment.rows |-> row]

\* CommentRows pushing one row per comment instead of the comment's rendered
\* lines (lines 272-280, 361-373, 388-399)
CommentRows_OneRowEach(comments, row) ==
    [k \in 1..Len(comments) |-> row]

\* the rows pushed for a list of comments, in list order
CommentRows(comments, row) ==
    Flatten([k \in 1..Len(comments) |-> format_comment_lines(comments[k], row)])

\* lines 351-376: comments stored under the line's old number whose side is Old
OldSideComments(line_comments, diff_line) ==
    IF IsSome(diff_line.old_lineno) /\ diff_line.old_lineno[1] \in DOMAIN line_comments
    THEN SelectSeq(line_comments[diff_line.old_lineno[1]], LAMBDA c : c.side = Some("Old"))
    ELSE <<>>

\* lines 378-402: comments stored under the line's new number whose side is not Old
NewSideComments(line_comments, diff_line) ==
    IF IsSome(diff_line.new_lineno) /\ diff_line.new_lineno[1] \in DOMAIN line_comments
    THEN SelectSeq(line_comments[diff_line.new_lineno[1]], LAMBDA c : c.side # Some("Old"))
    ELSE <<>>

\* lines 308-404: the rows of one hunk
HunkRows(file_idx, h, diff_hunk, line_comments) ==
    <<Row("hunk_header", file_idx, h, 0)>>
    \o Flatten([l \in 1..Len(diff_hunk.lines) |->
          <<Row("line", file_idx, h, l)>>
          \o CommentRows(OldSideComments(line_comments, diff_hunk.lines[l]),
                         Row("line_comment", file_idx, h, l))
          \o CommentRows(NewSideComments(line_comments, diff_hunk.lines[l]),
                         Row("line_comment", file_idx, h, l))])

\* FileRows without the `continue` of lines 260-262: the body of a reviewed
\* file is rendered like any other
FileRows_BodyNotFolded(file_idx) ==
    LET file == diff_files[file_idx + 1]
        path == display_path(file)
        header == <<Row("file_header", file_idx, 0, 0)>>
        file_comments ==
            IF path \in DOMAIN session_files
            THEN CommentRows(session_files[path].file_comments,
                             Row("file_comment", file_idx, 0, 0))
            ELSE <<>>
        line_comments ==
            IF path \in DOMAIN session_files
            THEN session_files[path].line_comments ELSE <<>>
        body ==
            IF file.is_binary THEN <<Row("binary", file_idx, 0, 0)>>
            ELSE IF file.hunks = <<>> THEN <<Row("no_changes", file_idx, 0, 0)>>
            ELSE Flatten([h \in 1..Len(file.hunks) |->
                            HunkRows(file_idx, h, file.hunks[h], line_comments)])
    IN header \o file_comments \o body \o <<Row("separator", file_idx, 0, 0)>>

\* lines 238-414: the rows of one file (one iteration of the loop over
\* app.diff_files); file_idx is 0-based
FileRows(file_idx) ==
    LET file == diff_files[file_idx + 1]
        path == display_path(file)
        is_reviewed == is_file_reviewed(path)
        header == <<Row("file_header", file_idx, 0, 0)>>
        file_comments ==
            IF path \in DOMAIN session_files
            THEN CommentRows(session_files[path].file_comments,
                             Row("file_comment", file_idx, 0, 0))
            ELSE <<>>
        line_comments ==
            IF path \in DOMAIN session_files
            THEN session_files[path].line_comments ELSE <<>>
        body ==
            IF file.is_binary THEN <<Row("binary", file_idx, 0, 0)>>
            ELSE IF file.hunks = <<>> THEN <<Row("no_changes", file_idx, 0, 0)>>
            ELSE Flatten([h \in 1..Len(file.hunks) |->
                            HunkRows(file_idx, h, file.hunks[h], line_comments)])
    IN IF is_reviewed THEN header
       ELSE header \o file_comments \o body \o <<Row("separator", file_idx, 0, 0)>>

\* the whole `lines` vector before the scroll offset is applied
render_unified_diff ==
    Flatten([i \in 1..Len(diff_files) |-> FileRows(i - 1)])

\* number of rows the renderer emits for the files strictly before file_idx
RenderedRowsBefore(file_idx) ==
    SumSeq([i \in 1..Min2(file_idx, Len(diff_files)) |-> Len(FileRows(i - 1))])

-----------------------------------------------------------------------------
(* Spec: the App after App::new, under the navigation actions *)

\* amounts passed to scroll_down / scroll_up by the event loop: one line
\* (Action::ScrollDown / ScrollUp) and half a page
HalfPage == 15
ScrollAmounts == {1, HalfPage}

NoHunk == [header |-> "", lines |-> <<>>, old_start |-> 0, old_count |-> 0,
           new_start |-> 0, new_count |-> 0, old_lineno |-> 0, new_lineno |-> 0]

\* no process is modelled: nothing on disk is looked at, main is not running
ProcessIdle ==
    /\ repo = None
    /\ fetched = None
    /\ outcome = None
    /\ loop_pc = "idle"
    /\ exit_code = None
    /\ should_quit = FALSE
    /\ input_mode = "Normal"
    /\ command_buffer = ""
    /\ saved = None

ParserIdle ==
    /\ diff_text = <<>>
    /\ pos = 0
    /\ pc = "idle"
    /\ files = <<>>
    /\ old_path = None
    /\ new_path = None
    /\ status = "Modified"
    /\ hunks = <<>>
    /\ hunk = NoHunk
    /\ result = "none"

\* App::new
Init ==
    /\ diff_files \in Changesets
    /\ session_files = AddAllFiles(<<>>, diff_files)
    /\ scroll_offset = 0
    /\ current_file_idx = 0
    /\ selected = 0
    /\ dirty = FALSE
    /\ updated_at = 0
    /\ now = 0
    /\ snapshot = None
    /\ ProcessIdle
    /\ ParserIdle

Next ==
    \/ \E n \in ScrollAmounts : scroll_down(n)
    \/ \E n \in ScrollAmounts : scroll_up(n)
    \/ \E idx \in 0..MaxFiles : jump_to_file(idx)
    \/ next_file
    \/ prev_file
    \/ toggle_reviewed
    \/ \E c \in Comments : add_file_comment(c)
    \/ \E l \in CommentLines, c \in Comments : add_line_comment(l, c)

Spec == Init /\ [][Next]_vars

-----------------------------------------------------------------------------
(* Properties of the navigation state, checked under Spec *)

\* C1: after any sequence of jump_to_file, next_file, prev_file, scroll_down
\* and scroll_up calls, with toggle_reviewed interleaved anywhere, the file
\* list selection equals the current file index.
C1_SelectedEqualsCurrentFile == selected = current_file_idx

\* C1 witness: free scrolling has moved the current file off file 0 after a
\* file was toggled.
C1_Witness_ScrolledToSecondFile ==
    /\ dirty
    /\ scroll_offset > 0
    /\ current_file_idx = 1
    /\ selected = 1

\* C2: scroll_offset lies in the row range of the current file, counting
\* each file's rows as the renderer emits them (a reviewed file is one row):
\* rows before the current file <= scroll_offset < rows up to and including it.
C2_ScrollOffsetInCurrentFileRows ==
    /\ RenderedRowsBefore(current_file_idx) <= scroll_offset
    /\ scroll_offset < RenderedRowsBefore(current_file_idx + 1)

\* C3: jump_to_file(idx) with a valid idx makes idx the current and the
\* selected file and sets scroll_offset to the number of rows the renderer
\* emits for the files before idx, so that the row at scroll_offset is the
\* header row of file idx.
C3_JumpLandsOnFileHeaderRow ==
    [][\A idx \in 0..(MaxFiles - 1) :
          (idx < Len(diff_files) /\ jump_to_file(idx)) =>
              /\ current_file_idx' = idx
              /\ selected' = idx
              /\ scroll_offset' = (RenderedRowsBefore(idx))'
              /\ (render_unified_diff)'[scroll_offset' + 1] = Row("file_header", idx, 0, 0)
      ]_vars

-----------------------------------------------------------------------------
(* String operations of the Rust standard library used by the parser *)

\* str::starts_with
StartsWith(s, p) == Len(s) >= Len(p) /\ SubSeq(s, 1, Len(p)) = p

\* str::contains
Contains(s, p) == \E i \in 1..(Len(s) - Len(p) + 1) : SubSeq(s, i, i + Len(p) - 1) = p

\* the text after the first Len(p) characters
DropPrefix(s, p) == SubSeq(s, Len(p) + 1, Len(s))

\* str::strip_prefix
strip_prefix(s, p) == IF StartsWith(s, p) THEN Some(DropPrefix(s, p)) ELSE None

\* str::trim_start_matches: removes every leading repetition of p
RECURSIVE trim_start_matches(_, _)
trim_start_matches(s, p) ==
    IF Len(p) > 0 /\ StartsWith(s, p) THEN trim_start_matches(DropPrefix(s, p), p) ELSE s

\* str::split_whitespace: the non-empty runs of non-space characters
RECURSIVE SplitFrom(_, _, _)
SplitFrom(s, i, word) ==
    IF i > Len(s) THEN (IF word = "" THEN <<>> ELSE <<word>>)
    ELSE IF SubSeq(s, i, i) = " "
         THEN (IF word = "" THEN <<>> ELSE <<word>>) \o SplitFrom(s, i + 1, "")
         ELSE SplitFrom(s, i + 1, word \o SubSeq(s, i, i))

split_whitespace(s) == SplitFrom(s, 1, "")

\* str::split_once(','): the text before and after the first comma
split_once_comma(s) ==
    IF Contains(s, ",")
    THEN LET i == CHOOSE k \in 1..Len(s) :
                    /\ SubSeq(s, k, k) = ","
                    /\ \A j \in 1..(k - 1) : SubSeq(s, j, j) # ","
         IN Some(<<SubSeq(s, 1, i - 1), SubSeq(s, i + 1, Len(s))>>)
    ELSE None

DigitValue(c) == CHOOSE d \in 0..9 : DigitChars[d + 1] = c
IsDigit(c) == \E d \in 0..9 : DigitChars[d + 1] = c

RECURSIVE DigitsValue(_, _)
DigitsValue(s, acc) ==
    IF s = "" THEN acc
    ELSE DigitsValue(SubSeq(s, 2, Len(s)), acc * 10 + DigitValue(SubSeq(s, 1, 1)))

\* str::parse::<u32>: an optional '+', then at least one digit.  Numbers of
\* up to nine significant digits are modelled (all of them below 2^32); the
\* diff texts of the model hold no longer ones.
parse_u32(s) ==
    LET digits == IF StartsWith(s, "+") THEN DropPrefix(s, "+") ELSE s
    IN IF /\ digits # ""
          /\ \A i \in 1..Len(digits) : IsDigit(SubSeq(digits, i, i))
          /\ Len(trim_start_matches(digits, "0")) <= 9
       THEN Some(DigitsValue(digits, 0))
       ELSE None

\* Option::unwrap_or
unwrap_or(o, d) == IF IsSome(o) THEN o[1] ELSE d

-----------------------------------------------------------------------------
(* The unified-diff parser (src/vcs/jj/diff_parser.rs) *)

\* parse_range
parse_range(s) ==
    LET sc == split_once_comma(s)
    IN IF IsSome(sc)
       THEN <<unwrap_or(parse_u32(sc[1][1]), 1), unwrap_or(parse_u32(sc[1][2]), 1)>>
       ELSE <<unwrap_or(parse_u32(s), 1), 1>>

\* parse_hunk_header: Some(<<old_start, old_count, new_start, new_count>>) or None
parse_hunk_header(line) ==
    LET parts == split_whitespace(line)
    IN IF Len(parts) < 3 \/ parts[1] # "@@" THEN None
       ELSE LET old_part == trim_start_matches(parts[2], "-")
                new_part == trim_start_matches(parts[3], "+")
                old == parse_range(old_part)
                new == parse_range(new_part)
            IN Some(<<old[1], old[2], new[1], new[2]>>)

\* what one iteration of parse_hunk's collecting loop (lines 153-194) does
\* with a consumed line: whether a DiffLine is pushed, the DiffLine, and the
\* two running counters afterwards
Skipped(old_lineno, new_lineno) ==
    [push |-> FALSE, line |-> DiffLine("Context", "", None, None),
     old_lineno |-> old_lineno, new_lineno |-> new_lineno]

Pushed(origin, content, old_ln, new_ln, old_lineno, new_lineno) ==
    [push |-> TRUE, line |-> DiffLine(origin, content, old_ln, new_ln),
     old_lineno |-> old_lineno, new_lineno |-> new_lineno]

\* parse_hunk_line with line 178 dropped: a context line advances only the
\* old counter
parse_hunk_line_context_old_only(line, old_lineno, new_lineno) ==
    IF StartsWith(line, "\\") THEN Skipped(old_lineno, new_lineno)
    ELSE IF IsSome(strip_prefix(line, "+"))
    THEN IF StartsWith(line, "+++") THEN Skipped(old_lineno, new_lineno)
         ELSE Pushed("Addition", strip_prefix(line, "+")[1], None, Some(new_lineno),
                     old_lineno, new_lineno + 1)
    ELSE IF IsSome(strip_prefix(line, "-"))
    THEN IF StartsWith(line, "---") THEN Skipped(old_lineno, new_lineno)
         ELSE Pushed("Deletion", strip_prefix(line, "-")[1], Some(old_lineno), None,
                     old_lineno + 1, new_lineno)
    ELSE IF IsSome(strip_prefix(line, " "))
    THEN Pushed("Context", strip_prefix(line, " ")[1], Some(old_lineno), Some(new_lineno),
                old_lineno + 1, new_lineno)
    ELSE IF line = ""
    THEN Pushed("Context", "", Some(old_lineno), Some(new_lineno),
                old_lineno + 1, new_lineno)
    ELSE Skipped(old_lineno, new_lineno)

\* parse_hunk_line with line 173 giving a deletion the new number as well
parse_hunk_line_deletion_both_numbers(line, old_lineno, new_lineno) ==
    IF StartsWith(line, "\\") THEN Skipped(old_lineno, new_lineno)
    ELSE IF IsSome(strip_prefix(line, "+"))
    THEN IF StartsWith(line, "+++") THEN Skipped(old_lineno, new_lineno)
         ELSE Pushed("Addition", strip_prefix(line, "+")[1], None, Some(new_lineno),
                     old_lineno, new_lineno + 1)
    ELSE IF IsSome(strip_prefix(line, "-"))
    THEN IF StartsWith(line, "---") THEN Skipped(old_lineno, new_lineno)
         ELSE Pushed("Deletion", strip_prefix(line, "-")[1], Some(old_lineno), Some(new_lineno),
                     old_lineno + 1, new_lineno)
    ELSE IF IsSome(strip_prefix(line, " "))
    THEN Pushed("Context", strip_prefix(line, " ")[1], Some(old_lineno), Some(new_lineno),
                old_lineno + 1, new_lineno + 1)
    ELSE IF line = ""
    THEN Pushed("Context", "", Some(old_lineno), Some(new_lineno),
                old_lineno + 1, new_lineno + 1)
    ELSE Skipped(old_lineno, new_lineno)

parse_hunk_line(line, old_lineno, new_lineno) ==
    IF StartsWith(line, "\\") THEN Skipped(old_lineno, new_lineno)
    ELSE IF IsSome(strip_prefix(line, "+"))
    THEN IF StartsWith(line, "+++") THEN Skipped(old_lineno, new_lineno)
         ELSE Pushed("Addition", strip_prefix(line, "+")[1], None, Some(new_lineno),
                     old_lineno, new_lineno + 1)
    ELSE IF IsSome(strip_prefix(line, "-"))
    THEN IF StartsWith(line, "---") THEN Skipped(old_lineno, new_lineno)
         ELSE Pushed("Deletion", strip_prefix(line, "-")[1], Some(old_lineno), None,
                     old_lineno + 1, new_lineno)
    ELSE IF IsSome(strip_prefix(line, " "))
    THEN Pushed("Context", strip_prefix(line, " ")[1], Some(old_lineno), Some(new_lineno),
                old_lineno + 1, new_lineno + 1)
    ELSE IF line = ""
    THEN Pushed("Context", "", Some(old_lineno), Some(new_lineno),
                old_lineno + 1, new_lineno + 1)
    ELSE Skipped(old_lineno, new_lineno)

\* Peekable::peek
peek == IF pos < Len(diff_text) THEN Some(diff_text[pos + 1]) ELSE None

\* parse_unified_diff, lines 19-22: the outer loop takes the next line and
\* enters parse_file_header on a "diff --git " line
ScanLine ==
    /\ pc = "scan"
    /\ IsSome(peek)
    /\ pos' = pos + 1
    /\ IF StartsWith(peek[1], "diff --git ")
       THEN /\ pc' = "header"
            /\ old_path' = None
            /\ new_path' = None
            /\ status' = "Modified"
       ELSE UNCHANGED <<pc, old_path, new_path, status>>
    /\ UNCHANGED <<diff_text, files, hunks, hunk, result>>
    /\ UNCHANGED appVars

\* ScanEnd without the check of lines 65-67: Ok whatever the list holds
ScanEnd_AlwaysOk ==
    /\ pc = "scan"
    /\ IsNone(peek)
    /\ pc' = "done"
    /\ result' = "Ok"
    /\ UNCHANGED <<diff_text, pos, files, old_path, new_path, status, hunks, hunk>>
    /\ UNCHANGED appVars

\* parse_unified_diff, lines 65-69: the input is exhausted
ScanEnd ==
    /\ pc = "scan"
    /\ IsNone(peek)
    /\ pc' = "done"
    /\ result' = IF files = <<>> THEN "NoChanges" ELSE "Ok"
    /\ UNCHANGED <<diff_text, pos, files, old_path, new_path, status, hunks, hunk>>
    /\ UNCHANGED appVars

\* parse_file_header, lines 83-114: one iteration of the loop over the
\* header lines; the loop is left at the end of input and on break
HeaderStep ==
    /\ pc = "header"
    /\ IF IsNone(peek)
       THEN /\ pc' = "header_done"
            /\ UNCHANGED <<pos, old_path, new_path, status>>
       ELSE LET line == peek[1] IN
            IF StartsWith(line, "---")
            THEN LET path_str == trim_start_matches(trim_start_matches(line, "--- "), "a/")
                 IN /\ old_path' = IF path_str # "/dev/null" THEN Some(path_str) ELSE old_path
                    /\ pos' = pos + 1
                    /\ UNCHANGED <<pc, new_path, status>>
            ELSE IF StartsWith(line, "+++")
            THEN LET path_str == trim_start_matches(trim_start_matches(line, "+++ "), "b/")
                 IN /\ new_path' = IF path_str # "/dev/null" THEN Some(path_str) ELSE new_path
                    /\ pos' = pos + 1
                    /\ pc' = "header_done"
                    /\ UNCHANGED <<old_path, status>>
            ELSE IF StartsWith(line, "new file")
            THEN /\ status' = "Added"
                 /\ pos' = pos + 1
                 /\ UNCHANGED <<pc, old_path, new_path>>
            ELSE IF StartsWith(line, "deleted file")
            THEN /\ status' = "Deleted"
                 /\ pos' = pos + 1
                 /\ UNCHANGED <<pc, old_path, new_path>>
            ELSE IF StartsWith(line, "rename from")
            THEN /\ status' = "Renamed"
                 /\ pos' = pos + 1
                 /\ UNCHANGED <<pc, old_path, new_path>>
            ELSE IF StartsWith(line, "copy from")
            THEN /\ status' = "Copied"
                 /\ pos' = pos + 1
                 /\ UNCHANGED <<pc, old_path, new_path>>
            ELSE IF StartsWith(line, "@@") \/ StartsWith(line, "diff ") \/ Contains(line, "Binary")
            THEN /\ pc' = "header_done"
                 /\ UNCHANGED <<pos, old_path, new_path, status>>
            ELSE /\ pos' = pos + 1
                 /\ UNCHANGED <<pc, old_path, new_path, status>>
    /\ UNCHANGED <<diff_text, files, hunks, hunk, result>>
    /\ UNCHANGED appVars

\* HeaderDone without lines 117-123: the status is never inferred from the paths
HeaderDone_NoPathInference ==
    /\ pc = "header_done"
    /\ status' = status
    /\ pc' = "binary_check"
    /\ UNCHANGED <<diff_text, pos, files, old_path, new_path, hunks, hunk, result>>
    /\ UNCHANGED appVars

\* HeaderDone without the test of line 117: the paths decide even when a
\* marker has set the status
HeaderDone_PathsOverrideMarker ==
    /\ pc = "header_done"
    /\ status' = IF IsNone(old_path) /\ IsSome(new_path) THEN "Added"
                 ELSE IF IsSome(old_path) /\ IsNone(new_path) THEN "Deleted"
                 ELSE status
    /\ pc' = "binary_check"
    /\ UNCHANGED <<diff_text, pos, files, old_path, new_path, hunks, hunk, result>>
    /\ UNCHANGED appVars

\* parse_file_header, lines 116-125: the status inferred from the paths
HeaderDone ==
    /\ pc = "header_done"
    /\ status' = IF status = "Modified"
                 THEN IF IsNone(old_path) /\ IsSome(new_path) THEN "Added"
                      ELSE IF IsSome(old_path) /\ IsNone(new_path) THEN "Deleted"
                      ELSE status
                 ELSE status
    /\ pc' = "binary_check"
    /\ UNCHANGED <<diff_text, pos, files, old_path, new_path, hunks, hunk, result>>
    /\ UNCHANGED appVars

\* parse_unified_diff, lines 24-38: a next line containing "Binary" is
\* consumed and the file pushed as binary; otherwise the hunks are parsed
BinaryCheck ==
    /\ pc = "binary_check"
    /\ IF IsSome(peek) /\ Contains(peek[1], "Binary")
       THEN /\ pos' = pos + 1
            /\ files' = Append(files, DiffFile(old_path, new_path, status, <<>>, TRUE))
            /\ pc' = "scan"
            /\ UNCHANGED hunks
       ELSE /\ hunks' = <<>>
            /\ pc' = "hunks"
            /\ UNCHANGED <<pos, files>>
    /\ UNCHANGED <<diff_text, old_path, new_path, status, hunk, result>>
    /\ UNCHANGED appVars

\* HunksStep with a header that does not parse ending the file section: the
\* file is pushed with the hunks read so far and the rest is scanned over
HunksStep_BadHeaderEndsFile ==
    /\ pc = "hunks"
    /\ IF IsNone(peek) \/ (IsSome(peek) /\ StartsWith(peek[1], "diff "))
       THEN /\ files' = Append(files, DiffFile(old_path, new_path, status, hunks, FALSE))
            /\ pc' = "scan"
            /\ UNCHANGED <<pos, hunk>>
       ELSE IF StartsWith(peek[1], "@@")
       THEN LET header_line == peek[1]
                parsed == parse_hunk_header(header_line)
            IN /\ pos' = pos + 1
               /\ IF IsNone(parsed)
                  THEN /\ files' = Append(files, DiffFile(old_path, new_path, status,
                                                          hunks, FALSE))
                       /\ pc' = "scan"
                       /\ UNCHANGED hunk
                  ELSE /\ hunk' = [header |-> header_line, lines |-> <<>>,
                                   old_start |-> parsed[1][1], old_count |-> parsed[1][2],
                                   new_start |-> parsed[1][3], new_count |-> parsed[1][4],
                                   old_lineno |-> parsed[1][1], new_lineno |-> parsed[1][3]]
                       /\ pc' = "body"
                       /\ UNCHANGED files
       ELSE /\ pos' = pos + 1
            /\ UNCHANGED <<pc, files, hunk>>
    /\ UNCHANGED <<diff_text, old_path, new_path, status, hunks, result>>
    /\ UNCHANGED appVars

\* parse_unified_diff, lines 41-61: one iteration of the loop over the
\* section's remaining lines.  A "@@" line enters parse_hunk (lines 135-145),
\* which consumes it and returns None when the header does not parse.  At
\* the end of input or on a "diff " line the file is pushed.
HunksStep ==
    /\ pc = "hunks"
    /\ IF IsNone(peek) \/ (IsSome(peek) /\ StartsWith(peek[1], "diff "))
       THEN /\ files' = Append(files, DiffFile(old_path, new_path, status, hunks, FALSE))
            /\ pc' = "scan"
            /\ UNCHANGED <<pos, hunk>>
       ELSE IF StartsWith(peek[1], "@@")
       THEN LET header_line == peek[1]
                parsed == parse_hunk_header(header_line)
            IN /\ pos' = pos + 1
               /\ IF IsNone(parsed)
                  THEN UNCHANGED <<pc, hunk>>
                  ELSE /\ hunk' = [header |-> header_line, lines |-> <<>>,
                                   old_start |-> parsed[1][1], old_count |-> parsed[1][2],
                                   new_start |-> parsed[1][3], new_count |-> parsed[1][4],
                                   old_lineno |-> parsed[1][1], new_lineno |-> parsed[1][3]]
                       /\ pc' = "body"
               /\ UNCHANGED files
       ELSE /\ pos' = pos + 1
            /\ UNCHANGED <<pc, files, hunk>>
    /\ UNCHANGED <<diff_text, old_path, new_path, status, hunks, result>>
    /\ UNCHANGED appVars

\* parse_hunk, lines 148-195 and 224-231: one iteration of the collecting
\* loop; at the end of input or on a "@@" or "diff " line the hunk is
\* returned and pushed (line 47)
BodyStep ==
    /\ pc = "body"
    /\ IF IsNone(peek) \/ (IsSome(peek) /\ (StartsWith(peek[1], "@@") \/ StartsWith(peek[1], "diff ")))
       THEN /\ hunks' = Append(hunks, DiffHunk(hunk.header, hunk.lines,
                                               hunk.old_start, hunk.old_count,
                                               hunk.new_start, hunk.new_count))
            /\ hunk' = NoHunk
            /\ pc' = "hunks"
            /\ UNCHANGED pos
       ELSE LET r == parse_hunk_line(peek[1], hunk.old_lineno, hunk.new_lineno)
            IN /\ pos' = pos + 1
               /\ hunk' = [hunk EXCEPT
                              !.lines = IF r.push THEN Append(@, r.line) ELSE @,
                              !.old_lineno = r.old_lineno,
                              !.new_lineno = r.new_lineno]
               /\ UNCHANGED <<pc, hunks>>
    /\ UNCHANGED <<diff_text, files, old_path, new_path, status, result>>
    /\ UNCHANGED appVars

-----------------------------------------------------------------------------
(* The diff texts ParseSpec parses *)

\* lines of arbitrary texts: file headers (one for a file named Binary, one
\* not in git format), path lines, status markers, other metadata, the
\* binary marker, hunk headers (plain, with a function context naming
\* Binary, and a combined-diff header that does not parse) and body lines
LineAlphabet ==
    {"diff --git a/f b/f", "diff --git a/Binary b/Binary", "diff -r 1a2b f",
     "--- a/f", "--- /dev/null", "+++ b/f", "+++ /dev/null",
     "new file mode 100644", "deleted file mode 100644", "rename from f", "copy from f",
     "index 1a2b..3c4d 100644",
     "Binary files a/f and b/f differ",
     "@@ -1 +1 @@", "@@ -1 +1 @@ fn readBinary()", "@@@ -1 -1 +1 @@@",
     "+x", "-x", " x"}

ArbitraryTexts == UNION { [1..n -> LineAlphabet] : n \in 0..MaxLines }

\* body lines of valid hunks: an added, a deleted and a context line, an
\* empty context line, the no-newline marker, a deleted line whose text is
\* "-- note" and an added line whose text is "++i;"
NoNewlineMarker == "\\ No newline at end of file"
BodyAlphabet == {"+x", "-x", " x", "", NoNewlineMarker, "--- note", "+++i;"}

\* the unified-diff format: which side(s) a body line belongs to
OnOldSide(line) == line = "" \/ StartsWith(line, "-") \/ StartsWith(line, " ")
OnNewSide(line) == line = "" \/ StartsWith(line, "+") \/ StartsWith(line, " ")
OldSideCount(body) == Cardinality({i \in 1..Len(body) : OnOldSide(body[i])})
NewSideCount(body) == Cardinality({i \in 1..Len(body) : OnNewSide(body[i])})

\* "@@ -start[,count] +start[,count] @@", the count omitted when it is 1
RangeText(start, count) ==
    IF count = 1 THEN NumStr(start) ELSE NumStr(start) \o "," \o NumStr(count)

HunkHeaderText(os, oc, ns, nc) ==
    "@@ -" \o RangeText(os, oc) \o " +" \o RangeText(ns, nc) \o " @@"

\* a hunk whose header declares exactly the lines of its body
HunkText(os, ns, body) ==
    <<HunkHeaderText(os, OldSideCount(body), ns, NewSideCount(body))>> \o body

StartPairs == {<<1, 1>>, <<5, 7>>}

ValidBodies ==
    {b \in UNION { [1..n -> BodyAlphabet] : n \in 1..MaxBody } : b[1] # NoNewlineMarker}

\* one file section with one hunk, or with two hunks the second of which
\* starts ten lines after the end of the first
ValidTexts ==
    { <<"diff --git a/f b/f", "--- a/f", "+++ b/f">>
        \o HunkText(st[1], st[2], SubSeq(b, 1, k))
        \o (IF k = Len(b) THEN <<>>
            ELSE HunkText(st[1] + OldSideCount(SubSeq(b, 1, k)) + 10,
                          st[2] + NewSideCount(SubSeq(b, 1, k)) + 10,
                          SubSeq(b, k + 1, Len(b))))
      : <<st, b, k>> \in
          { t \in StartPairs \X ValidBodies \X (1..MaxBody) :
              /\ t[3] <= Len(t[2])
              /\ (t[3] < Len(t[2]) => t[2][t[3] + 1] # NoNewlineMarker) } }

\* the diffs of the parser's own tests (diff_parser.rs, lines 264-394)
TestTexts ==
    { <<>>,
      <<"diff --git a/file.txt b/file.txt", "--- a/file.txt", "+++ b/file.txt",
        "@@ -1,3 +1,4 @@", " line1", "+added", " line2", " line3">>,
      <<"diff --git a/new.txt b/new.txt", "new file mode 100644", "--- /dev/null",
        "+++ b/new.txt", "@@ -0,0 +1,2 @@", "+line1", "+line2">>,
      <<"diff --git a/old.txt b/old.txt", "deleted file mode 100644", "--- a/old.txt",
        "+++ /dev/null", "@@ -1,2 +0,0 @@", "-line1", "-line2">>,
      <<"diff --git a/old.txt b/new.txt", "rename from old.txt", "rename to new.txt">>,
      <<"diff --git a/a.txt b/a.txt", "--- a/a.txt", "+++ b/a.txt", "@@ -1 +1 @@",
        "-old", "+new",
        "diff --git a/b.txt b/b.txt", "--- a/b.txt", "+++ b/b.txt", "@@ -1 +1 @@",
        "-foo", "+bar">>,
      <<"diff --git a/file.txt b/file.txt", "--- a/file.txt", "+++ b/file.txt",
        "@@ -5,4 +5,5 @@", " context", "-deleted", "+added1", "+added2", " more">> }

DiffTexts == ArbitraryTexts \cup ValidTexts \cup TestTexts

-----------------------------------------------------------------------------
(* ParseSpec: parse_unified_diff over the diff texts *)

AppNotConstructed ==
    /\ diff_files = <<>>
    /\ session_files = <<>>
    /\ scroll_offset = 0
    /\ current_file_idx = 0
    /\ selected = 0
    /\ dirty = FALSE
    /\ updated_at = 0
    /\ now = 0
    /\ snapshot = None
    /\ ProcessIdle

\* parse_unified_diff, lines 16-17
ParseInit ==
    /\ diff_text \in DiffTexts
    /\ pos = 0
    /\ pc = "scan"
    /\ files = <<>>
    /\ old_path = None
    /\ new_path = None
    /\ status = "Modified"
    /\ hunks = <<>>
    /\ hunk = NoHunk
    /\ result = "none"
    /\ AppNotConstructed

ParseNext ==
    \/ ScanLine
    \/ ScanEnd
    \/ HeaderStep
    \/ HeaderDone
    \/ BinaryCheck
    \/ HunksStep
    \/ BodyStep

ParseSpec == ParseInit /\ [][ParseNext]_vars

-----------------------------------------------------------------------------
(* Properties of the parser, checked under ParseSpec *)

\* every hunk the parser holds: those of the pushed files, those of the
\* section being parsed, and the lines collected so far for the current hunk
ParsedHunks ==
    UNION { { files[k].hunks[h] : h \in DOMAIN files[k].hunks } : k \in DOMAIN files }
    \cup { hunks[h] : h \in DOMAIN hunks }
    \cup { DiffHunk(hunk.header, hunk.lines, hunk.old_start, hunk.old_count,
                    hunk.new_start, hunk.new_count) }

OldSideLines(h) == {i \in DOMAIN h.lines : h.lines[i].origin \in {"Context", "Deletion"}}
NewSideLines(h) == {i \in DOMAIN h.lines : h.lines[i].origin \in {"Context", "Addition"}}

\* positions of the "diff --git " lines of the text, and the k-th of them
SectionStarts == {i \in DOMAIN diff_text : StartsWith(diff_text[i], "diff --git ")}
SectionStart(k) ==
    CHOOSE i \in SectionStarts : Cardinality({j \in SectionStarts : j < i}) = k - 1
\* last line of the k-th section
SectionEnd(k) ==
    IF k < Cardinality(SectionStarts) THEN SectionStart(k + 1) - 1 ELSE Len(diff_text)
SectionLines(k) == (SectionStart(k) + 1)..SectionEnd(k)

\* C4: for a valid unified-diff text, every returned hunk holds exactly
\* old_count lines with an old line number and new_count lines with a new
\* line number, whatever the text of the changed lines.
C4_HunkLinesMatchDeclaredCounts ==
    (pc = "done" /\ diff_text \in ValidTexts) =>
        \A k \in DOMAIN files : \A h \in DOMAIN files[k].hunks :
            LET hk == files[k].hunks[h]
            IN /\ Cardinality({i \in DOMAIN hk.lines : IsSome(hk.lines[i].old_lineno)})
                    = hk.old_count
               /\ Cardinality({i \in DOMAIN hk.lines : IsSome(hk.lines[i].new_lineno)})
                    = hk.new_count

\* C5: parse_unified_diff returns NoChanges for the empty text and for any
\* text without a "diff --git " line, and whenever it returns Ok the list of
\* files is not empty.
C5_NoChangesWithoutFileSection ==
    pc = "done" =>
        /\ result \in {"Ok", "NoChanges"}
        /\ (SectionStarts = {} => result = "NoChanges")
        /\ (result = "Ok" => files # <<>>)

\* C5 witness: a text with path lines and a hunk but no "diff --git " line
\* has been parsed to NoChanges.
C5_Witness_HunkWithoutFileHeader ==
    /\ pc = "done"
    /\ result = "NoChanges"
    /\ diff_text = <<"--- a/f", "+++ b/f", "@@ -1 +1 @@">>

\* C6: within a parsed hunk the k-th line on the old side has old number
\* old_start + k - 1 and the k-th line on the new side has new number
\* new_start + k - 1, each counter advancing only for lines of its side.
C6_RunningCounterPerSide ==
    \A hk \in ParsedHunks : \A i \in DOMAIN hk.lines :
        /\ i \in OldSideLines(hk) =>
              hk.lines[i].old_lineno =
                  Some(hk.old_start + Cardinality({j \in OldSideLines(hk) : j < i}))
        /\ i \in NewSideLines(hk) =>
              hk.lines[i].new_lineno =
                  Some(hk.new_start + Cardinality({j \in NewSideLines(hk) : j < i}))

\* C6 witness: `@@ -5,4 +5,5 @@` with context, deletion, addition, addition,
\* context has been parsed to (5,5) (6,None) (None,6) (None,7) (7,8).
C6_Witness_LineNumberExample ==
    /\ pc = "done"
    /\ Len(files) = 1
    /\ Len(files[1].hunks) = 1
    /\ files[1].hunks[1].header = "@@ -5,4 +5,5 @@"
    /\ [i \in 1..Len(files[1].hunks[1].lines) |->
            <<files[1].hunks[1].lines[i].old_lineno, files[1].hunks[1].lines[i].new_lineno>>]
         = << <<Some(5), Some(5)>>, <<Some(6), None>>, <<None, Some(6)>>,
              <<None, Some(7)>>, <<Some(7), Some(8)>> >>

\* C7: every DiffLine has an old line number iff it is a Context or a
\* Deletion line and a new line number iff it is a Context or an Addition
\* line, hence at least one of the two.
C7_LineNumbersFollowOrigin ==
    \A hk \in ParsedHunks : \A i \in DOMAIN hk.lines :
        /\ hk.lines[i].origin \in {"Context", "Addition", "Deletion"}
        /\ IsSome(hk.lines[i].old_lineno) <=> hk.lines[i].origin \in {"Context", "Deletion"}
        /\ IsSome(hk.lines[i].new_lineno) <=> hk.lines[i].origin \in {"Context", "Addition"}
        /\ IsSome(hk.lines[i].old_lineno) \/ IsSome(hk.lines[i].new_lineno)

\* C7 witness: a returned hunk holds a context, a deletion and an addition line.
C7_Witness_AllThreeOrigins ==
    /\ pc = "done"
    /\ \E k \in DOMAIN files : \E h \in DOMAIN files[k].hunks :
          {files[k].hunks[h].lines[i].origin : i \in DOMAIN files[k].hunks[h].lines}
             = {"Context", "Addition", "Deletion"}

\* C8: every DiffFile returned has at least one of old_path and new_path,
\* for every kind of file section.
C8_EveryFileHasAPath ==
    pc = "done" =>
        \A k \in DOMAIN files : IsSome(files[k].old_path) \/ IsSome(files[k].new_path)

\* C9: parse_unified_diff returns exactly one DiffFile per "diff --git "
\* section, in input order: the k-th file carries the paths of the k-th section.
C9_OneFilePerSectionInOrder ==
    pc = "done" =>
        /\ Len(files) = Cardinality(SectionStarts)
        /\ \A k \in DOMAIN files :
              /\ IsSome(files[k].old_path) =>
                    \E i \in SectionLines(k) :
                        StartsWith(diff_text[i], "--- ")
                        /\ Contains(diff_text[i], files[k].old_path[1])
              /\ IsSome(files[k].new_path) =>
                    \E i \in SectionLines(k) :
                        StartsWith(diff_text[i], "+++ ")
                        /\ Contains(diff_text[i], files[k].new_path[1])

\* a "Binary files ... differ" line
IsBinaryMarker(line) == StartsWith(line, "Binary files ") /\ Contains(line, " differ")

\* git's extended header lines, which precede the binary marker or the paths
IsExtendedHeader(line) ==
    \/ StartsWith(line, "new file") \/ StartsWith(line, "deleted file")
    \/ StartsWith(line, "rename from") \/ StartsWith(line, "copy from")
    \/ StartsWith(line, "index ")

\* C10: a file section is returned is_binary, with no hunks, exactly when a
\* "Binary files ... differ" line stands in place of its hunks; a section
\* whose header is followed by hunks is returned not binary with all of its
\* hunks; and parsing resumes at the next section.
C10_BinaryOnlyOnBinaryMarker ==
    pc = "done" =>
        /\ Len(files) = Cardinality(SectionStarts)
        /\ \A k \in DOMAIN files :
              LET markers == {i \in SectionLines(k) : IsBinaryMarker(diff_text[i])}
                  headers == {i \in SectionLines(k) : StartsWith(diff_text[i], "@@ -")}
                  foreign == {i \in SectionLines(k) : StartsWith(diff_text[i], "diff ")}
              IN /\ files[k].is_binary => (files[k].hunks = <<>> /\ markers # {})
                 /\ (\E i \in markers :
                        \A j \in SectionLines(k) : j < i => IsExtendedHeader(diff_text[j]))
                      => files[k].is_binary
                 /\ (markers = {} /\ foreign = {} /\ headers # {}) =>
                        (~files[k].is_binary /\ Len(files[k].hunks) = Cardinality(headers))

-----------------------------------------------------------------------------
(* Properties of parse_file_header, checked under ParseSpec at its return
   (pc = "binary_check": old_path, new_path and status are the tuple of
   line 125, which lines 27-33 and 55-61 store in the DiffFile unchanged) *)

\* the "diff --git " line whose header was just parsed, and the lines
\* parse_file_header consumed after it
HeaderStart ==
    CHOOSE i \in 0..pos :
        /\ i > 0 => StartsWith(diff_text[i], "diff --git ")
        /\ \A j \in (i + 1)..pos : ~StartsWith(diff_text[j], "diff --git ")
HeaderLines == (HeaderStart + 1)..pos

\* the explicit status markers of a header and the status each one names
MarkerStatus(line) ==
    IF StartsWith(line, "new file") THEN "Added"
    ELSE IF StartsWith(line, "deleted file") THEN "Deleted"
    ELSE IF StartsWith(line, "rename from") THEN "Renamed"
    ELSE IF StartsWith(line, "copy from") THEN "Copied"
    ELSE "none"
HeaderMarkers == {i \in HeaderLines : MarkerStatus(diff_text[i]) # "none"}

\* the header names an old path (a "--- " line other than /dev/null) or a
\* new path (a "+++ " line other than /dev/null)
OldPathInHeader ==
    \E i \in HeaderLines :
        StartsWith(diff_text[i], "--- ") /\ diff_text[i] # "--- /dev/null"
NewPathInHeader ==
    \E i \in HeaderLines :
        StartsWith(diff_text[i], "+++ ") /\ diff_text[i] # "+++ /dev/null"

\* C11: for a file section whose header has no explicit status marker, the
\* parsed status is Added iff the old path is absent and the new path
\* present, Deleted iff the old path is present and the new path absent, and
\* Modified otherwise; path presence is that of the header text and of the
\* parsed paths alike.
C11_StatusInferredFromPaths ==
    (pc = "binary_check" /\ HeaderMarkers = {}) =>
        /\ IsSome(old_path) <=> OldPathInHeader
        /\ IsSome(new_path) <=> NewPathInHeader
        /\ status = "Added" <=> (~OldPathInHeader /\ NewPathInHeader)
        /\ status = "Deleted" <=> (OldPathInHeader /\ ~NewPathInHeader)
        /\ status = "Modified" <=> (OldPathInHeader <=> NewPathInHeader)

\* C11 witness: the header `--- /dev/null`, `+++ b/f` without a marker has
\* been parsed to Added.
C11_Witness_AddedByAbsentOldPath ==
    /\ pc = "binary_check"
    /\ HeaderMarkers = {}
    /\ diff_text = <<"diff --git a/f b/f", "--- /dev/null", "+++ b/f">>
    /\ status = "Added"
    /\ IsNone(old_path) /\ IsSome(new_path)

\* C12: an explicit header marker determines the parsed status whatever
\* paths the header names: `new file` gives Added, `deleted file` Deleted,
\* `rename from` Renamed, `copy from` Copied (a header whose markers all name
\* the same status gets that status), and a status of Modified is returned
\* only for a header without any marker.
C12_MarkerDeterminesStatus ==
    pc = "binary_check" =>
        /\ \A m \in {"Added", "Deleted", "Renamed", "Copied"} :
              (/\ HeaderMarkers # {}
               /\ \A i \in HeaderMarkers : MarkerStatus(diff_text[i]) = m)
                  => status = m
        /\ status = "Modified" => HeaderMarkers = {}

\* C12 witness: a `deleted file` marker followed by a new path only has been
\* parsed to Deleted, against what the paths alone would give.
C12_Witness_MarkerAgainstPaths ==
    /\ pc = "binary_check"
    /\ diff_text = <<"diff --git a/f b/f", "deleted file mode 100644", "+++ b/f">>
    /\ status = "Deleted"
    /\ IsNone(old_path) /\ IsSome(new_path)

-----------------------------------------------------------------------------
(* The side-by-side renderer's flattened row sequence
   (src/ui/app_layout.rs, render_side_by_side_diff) *)

\* one pushed Line of the two-column layout: left and right are the 1-based
\* positions in the hunk of the lines shown in the two columns (0 for a
\* blank column and for rows that show no diff line); a comment row carries
\* the position of the line it annotates in the column of its side
SbsRow(kind, file, h, left, right) ==
    [kind |-> kind, file |-> file, hunk |-> h, left |-> left, right |-> right]

\* add_comments_to_line with `comment.side.unwrap_or(LineSide::Old)`
add_comments_to_line_side_defaults_to_old(line_num, line_comments, side) ==
    IF line_num \in DOMAIN line_comments
    THEN SelectSeq(line_comments[line_num],
                   LAMBDA c : LET comment_side == unwrap_or(c.side, "Old")
                              IN \/ (side = "Old" /\ comment_side = "Old")
                                 \/ (side = "New" /\ comment_side # "Old"))
    ELSE <<>>

\* add_comments_to_line: the comments stored under line_num that go to the
\* given column, a comment without a side counting as New
add_comments_to_line(line_num, line_comments, side) ==
    IF line_num \in DOMAIN line_comments
    THEN SelectSeq(line_comments[line_num],
                   LAMBDA c : LET comment_side == unwrap_or(c.side, "New")
                              IN \/ (side = "Old" /\ comment_side = "Old")
                                 \/ (side = "New" /\ comment_side # "Old"))
    ELSE <<>>

\* render_context_line_side_by_side: the line in both columns, then the
\* New-side comments under its new number
render_context_line_side_by_side(file_idx, h, l, diff_line, line_comments) ==
    <<SbsRow("context", file_idx, h, l, l)>>
    \o (IF IsSome(diff_line.new_lineno)
        THEN CommentRows(add_comments_to_line(diff_line.new_lineno[1], line_comments, "New"),
                         SbsRow("line_comment", file_idx, h, 0, l))
        ELSE <<>>)

\* the end (exclusive) of the maximal run of lines of one origin starting at i
RECURSIVE RunEnd(_, _, _)
RunEnd(hunk_lines, i, origin) ==
    IF i <= Len(hunk_lines) /\ hunk_lines[i].origin = origin
    THEN RunEnd(hunk_lines, i + 1, origin)
    ELSE i

\* the pairing returning add_start instead of add_end: the scan goes on at
\* the additions it has just paired
render_deletion_addition_pair_rescans_additions(file_idx, h, hunk_lines, start_idx, line_comments) ==
    LET del_end == RunEnd(hunk_lines, start_idx + 1, "Deletion")
        add_start == del_end
        add_end == RunEnd(hunk_lines, add_start, "Addition")
        del_count == del_end - start_idx
        add_count == add_end - add_start
        max_lines == Max2(del_count, add_count)
        PairRows(offset) ==
            LET left == IF offset < del_count THEN start_idx + offset ELSE 0
                right == IF offset < add_count THEN add_start + offset ELSE 0
            IN <<SbsRow("pair", file_idx, h, left, right)>>
               \o (IF left # 0 /\ IsSome(hunk_lines[left].old_lineno)
                   THEN CommentRows(add_comments_to_line(hunk_lines[left].old_lineno[1],
                                                         line_comments, "Old"),
                                    SbsRow("line_comment", file_idx, h, left, 0))
                   ELSE <<>>)
               \o (IF right # 0 /\ IsSome(hunk_lines[right].new_lineno)
                   THEN CommentRows(add_comments_to_line(hunk_lines[right].new_lineno[1],
                                                         line_comments, "New"),
                                    SbsRow("line_comment", file_idx, h, 0, right))
                   ELSE <<>>)
    IN [rows |-> Flatten([k \in 1..max_lines |-> PairRows(k - 1)]),
        lines_processed |-> add_start]

\* the pairing with min in place of max at line 705: the excess lines of the
\* longer run get no row
render_deletion_addition_pair_drops_excess(file_idx, h, hunk_lines, start_idx, line_comments) ==
    LET del_end == RunEnd(hunk_lines, start_idx + 1, "Deletion")
        add_start == del_end
        add_end == RunEnd(hunk_lines, add_start, "Addition")
        del_count == del_end - start_idx
        add_count == add_end - add_start
        max_lines == Min2(del_count, add_count)
        PairRows(offset) ==
            LET left == IF offset < del_count THEN start_idx + offset ELSE 0
                right == IF offset < add_count THEN add_start + offset ELSE 0
            IN <<SbsRow("pair", file_idx, h, left, right)>>
               \o (IF left # 0 /\ IsSome(hunk_lines[left].old_lineno)
                   THEN CommentRows(add_comments_to_line(hunk_lines[left].old_lineno[1],
                                                         line_comments, "Old"),
                                    SbsRow("line_comment", file_idx, h, left, 0))
                   ELSE <<>>)
               \o (IF right # 0 /\ IsSome(hunk_lines[right].new_lineno)
                   THEN CommentRows(add_comments_to_line(hunk_lines[right].new_lineno[1],
                                                         line_comments, "New"),
                                    SbsRow("line_comment", file_idx, h, 0, right))
                   ELSE <<>>)
    IN [rows |-> Flatten([k \in 1..max_lines |-> PairRows(k - 1)]),
        lines_processed |-> add_end]

\* render_deletion_addition_pair_side_by_side: the rows of the run of
\* deletions starting at start_idx and of the additions that follow it,
\* paired by position, each row followed by the comments of its deletion and
\* then of its addition
render_deletion_addition_pair_side_by_side(file_idx, h, hunk_lines, start_idx, line_comments) ==
    LET del_end == RunEnd(hunk_lines, start_idx + 1, "Deletion")
        add_start == del_end
        add_end == RunEnd(hunk_lines, add_start, "Addition")
        del_count == del_end - start_idx
        add_count == add_end - add_start
        max_lines == Max2(del_count, add_count)
        PairRows(offset) ==
            LET left == IF offset < del_count THEN start_idx + offset ELSE 0
                right == IF offset < add_count THEN add_start + offset ELSE 0
            IN <<SbsRow("pair", file_idx, h, left, right)>>
               \o (IF left # 0 /\ IsSome(hunk_lines[left].old_lineno)
                   THEN CommentRows(add_comments_to_line(hunk_lines[left].old_lineno[1],
                                                         line_comments, "Old"),
                                    SbsRow("line_comment", file_idx, h, left, 0))
                   ELSE <<>>)
               \o (IF right # 0 /\ IsSome(hunk_lines[right].new_lineno)
                   THEN CommentRows(add_comments_to_line(hunk_lines[right].new_lineno[1],
                                                         line_comments, "New"),
                                    SbsRow("line_comment", file_idx, h, 0, right))
                   ELSE <<>>)
    IN [rows |-> Flatten([k \in 1..max_lines |-> PairRows(k - 1)]),
        lines_processed |-> add_end]

\* a standalone addition put in the left column
render_standalone_addition_on_left(file_idx, h, l, diff_line, line_comments) ==
    <<SbsRow("addition", file_idx, h, l, 0)>>
    \o (IF IsSome(diff_line.new_lineno)
        THEN CommentRows(add_comments_to_line(diff_line.new_lineno[1], line_comments, "New"),
                         SbsRow("line_comment", file_idx, h, 0, l))
        ELSE <<>>)

\* render_standalone_addition_side_by_side: blank left column, the addition
\* on the right, then its New-side comments
render_standalone_addition_side_by_side(file_idx, h, l, diff_line, line_comments) ==
    <<SbsRow("addition", file_idx, h, 0, l)>>
    \o (IF IsSome(diff_line.new_lineno)
        THEN CommentRows(add_comments_to_line(diff_line.new_lineno[1], line_comments, "New"),
                         SbsRow("line_comment", file_idx, h, 0, l))
        ELSE <<>>)

\* render_hunk_lines_side_by_side: the loop over the hunk's lines from
\* position i (1-based) on
RECURSIVE render_hunk_lines_side_by_side(_, _, _, _, _)
render_hunk_lines_side_by_side(file_idx, h, hunk_lines, line_comments, i) ==
    IF i > Len(hunk_lines) THEN <<>>
    ELSE IF hunk_lines[i].origin = "Context"
    THEN render_context_line_side_by_side(file_idx, h, i, hunk_lines[i], line_comments)
         \o render_hunk_lines_side_by_side(file_idx, h, hunk_lines, line_comments, i + 1)
    ELSE IF hunk_lines[i].origin = "Deletion"
    THEN LET pair == render_deletion_addition_pair_side_by_side(
                         file_idx, h, hunk_lines, i, line_comments)
         IN pair.rows
            \o render_hunk_lines_side_by_side(file_idx, h, hunk_lines, line_comments,
                                              pair.lines_processed)
    ELSE render_standalone_addition_side_by_side(file_idx, h, i, hunk_lines[i], line_comments)
         \o render_hunk_lines_side_by_side(file_idx, h, hunk_lines, line_comments, i + 1)

\* lines 482-577: the rows of one file in the two-column layout; file_idx is
\* 0-based
SideBySideFileRows(file_idx) ==
    LET file == diff_files[file_idx + 1]
        path == display_path(file)
        is_reviewed == is_file_reviewed(path)
        header == <<SbsRow("file_header", file_idx, 0, 0, 0)>>
        file_comments ==
            IF path \in DOMAIN session_files
            THEN CommentRows(session_files[path].file_comments,
                             SbsRow("file_comment", file_idx, 0, 0, 0))
            ELSE <<>>
        line_comments ==
            IF path \in DOMAIN session_files
            THEN session_files[path].line_comments ELSE <<>>
        body ==
            IF file.is_binary THEN <<SbsRow("binary", file_idx, 0, 0, 0)>>
            ELSE IF file.hunks = <<>> THEN <<SbsRow("no_changes", file_idx, 0, 0, 0)>>
            ELSE Flatten([h \in 1..Len(file.hunks) |->
                    <<SbsRow("hunk_header", file_idx, h, 0, 0)>>
                    \o render_hunk_lines_side_by_side(file_idx, h, file.hunks[h].lines,
                                                      line_comments, 1)])
    IN IF is_reviewed THEN header
       ELSE header \o file_comments \o body \o <<SbsRow("separator", file_idx, 0, 0, 0)>>

\* the whole `lines` vector of the two-column layout before the scroll
\* offset is applied
render_side_by_side_diff ==
    Flatten([i \in 1..Len(diff_files) |-> SideBySideFileRows(i - 1)])

\* lines 418-421 and 581-584: the rows left after skip(scroll_offset)
VisibleFrom(rows, offset) == SubSeq(rows, offset + 1, Len(rows))

-----------------------------------------------------------------------------
(* ReviewSpec: the App after App::new over changesets of all three shapes,
   under file navigation, half-page scrolling, toggle_reviewed and comments *)

\* App::new
ReviewInit ==
    /\ diff_files \in ReviewChangesets
    /\ session_files = AddAllFiles(<<>>, diff_files)
    /\ scroll_offset = 0
    /\ current_file_idx = 0
    /\ selected = 0
    /\ dirty = FALSE
    /\ updated_at = 0
    /\ now = 0
    /\ snapshot = None
    /\ ProcessIdle
    /\ ParserIdle

ReviewNext ==
    \/ scroll_down(HalfPage)
    \/ scroll_up(HalfPage)
    \/ \E idx \in 0..MaxFiles : jump_to_file(idx)
    \/ next_file
    \/ prev_file
    \/ toggle_reviewed
    \/ \E c \in Comments : add_file_comment(c)
    \/ \E l \in CommentLines, c \in Comments : add_line_comment(l, c)

ReviewSpec == ReviewInit /\ [][ReviewNext]_vars

-----------------------------------------------------------------------------
(* Properties of the renderers and of the review session, checked under
   ReviewSpec *)

\* the 0-based indexes of the files whose review entry is marked reviewed
ReviewedFiles ==
    {i \in 0..(Len(diff_files) - 1) : is_file_reviewed(display_path(diff_files[i + 1]))}

\* C13: in the unified and in the side-by-side layout a reviewed file
\* contributes exactly one row, its header, to the flattened row sequence:
\* no file comment, hunk header, diff line, line comment or separator row of
\* it is emitted, and none is among the rows left once the scroll offset is
\* applied.
C13_ReviewedFileIsOneHeaderRow ==
    LET unified == render_unified_diff
        side_by_side == render_side_by_side_diff
        unified_visible == VisibleFrom(unified, scroll_offset)
        side_by_side_visible == VisibleFrom(side_by_side, scroll_offset)
    IN \A i \in ReviewedFiles :
          /\ FileRows(i) = <<Row("file_header", i, 0, 0)>>
          /\ SideBySideFileRows(i) = <<SbsRow("file_header", i, 0, 0, 0)>>
          /\ Cardinality({k \in DOMAIN unified : unified[k].file = i}) = 1
          /\ Cardinality({k \in DOMAIN side_by_side : side_by_side[k].file = i}) = 1
          /\ \A k \in DOMAIN unified_visible :
                unified_visible[k].file = i => unified_visible[k].kind = "file_header"
          /\ \A k \in DOMAIN side_by_side_visible :
                side_by_side_visible[k].file = i
                    => side_by_side_visible[k].kind = "file_header"

\* C13 witness: a file with hunks that holds a comment is marked reviewed and
\* the view has been scrolled.
C13_Witness_ReviewedFileWithComment ==
    /\ scroll_offset > 0
    /\ \E i \in ReviewedFiles :
          /\ diff_files[i + 1].hunks # <<>>
          /\ comment_count(session_files[display_path(diff_files[i + 1])]) > 0

\* the number of rows one comment renders to
RenderedRowCount(comment) == Len(format_comment_lines(comment, "row"))

\* the stored line comments of a file as (line number, position) pairs
StoredLineComments(line_comments) ==
    UNION { { <<n, k>> : k \in DOMAIN line_comments[n] } : n \in DOMAIN line_comments }

\* a comment stored under number n is on a diff line when it is an Old-side
\* comment and n is the line's old number, or is not an Old-side comment and
\* n is the line's new number
IsOnLine(comment, n, diff_line) ==
    \/ (comment.side = Some("Old") /\ diff_line.old_lineno = Some(n))
    \/ (comment.side # Some("Old") /\ diff_line.new_lineno = Some(n))

\* the rendered rows of the comments on one diff line, summed comment by comment
RECURSIVE SumRowsOnLine(_, _, _)
SumRowsOnLine(line_comments, pairs, diff_line) ==
    IF pairs = {} THEN 0
    ELSE LET p == CHOOSE q \in pairs : TRUE
             c == line_comments[p[1]][p[2]]
         IN (IF IsOnLine(c, p[1], diff_line) THEN RenderedRowCount(c) ELSE 0)
            + SumRowsOnLine(line_comments, pairs \ {p}, diff_line)

\* the file comments and line comments the session holds for a file
FileCommentsOf(file) ==
    IF display_path(file) \in DOMAIN session_files
    THEN session_files[display_path(file)].file_comments ELSE <<>>
LineCommentsOf(file) ==
    IF display_path(file) \in DOMAIN session_files
    THEN session_files[display_path(file)].line_comments ELSE <<>>

FileCommentRowCount(file) ==
    SumSeq([k \in 1..Len(FileCommentsOf(file)) |-> RenderedRowCount(FileCommentsOf(file)[k])])

\* for each hunk: 1 hunk-header row + for each line 1 row + the rendered
\* rows of the comments on that line
HunkRowCount(file) ==
    SumSeq([h \in 1..Len(file.hunks) |->
        1 + SumSeq([l \in 1..Len(file.hunks[h].lines) |->
                1 + SumRowsOnLine(LineCommentsOf(file),
                                  StoredLineComments(LineCommentsOf(file)),
                                  file.hunks[h].lines[l])])])

UnreviewedFiles == (0..(Len(diff_files) - 1)) \ ReviewedFiles

\* C14 as stated: every file that is not reviewed, binary files and files
\* with no hunks included, is rendered by the unified renderer to exactly
\* 1 header row + the rows of its file comments + the rows of its hunks
\* + 1 separator row.
C14_UnreviewedRowCountAsStated ==
    \A i \in UnreviewedFiles :
        Len(FileRows(i)) =
            1 + FileCommentRowCount(diff_files[i + 1]) + HunkRowCount(diff_files[i + 1]) + 1

\* C14 amended: every file that is not reviewed is rendered by the unified
\* renderer to exactly 1 header row + the rendered rows of its file comments
\* + its body + 1 separator row, where the body of a binary file or of a file
\* with no hunks is 1 placeholder row and the body of any other file is, for
\* each hunk, 1 hunk-header row + for each line 1 row + the rendered rows of
\* the comments on that line; each comment contributes its own rendered row
\* count.
C14_UnreviewedRowCount ==
    \A i \in UnreviewedFiles :
        LET file == diff_files[i + 1]
        IN Len(FileRows(i)) =
              1 + FileCommentRowCount(file)
              + (IF file.is_binary \/ file.hunks = <<>> THEN 1 ELSE HunkRowCount(file))
              + 1

\* C14 witness: a file with hunks that is not reviewed shows a line comment
\* that renders to more than one row.
C14_Witness_MultiRowLineComment ==
    \E i \in UnreviewedFiles :
        /\ diff_files[i + 1].hunks # <<>>
        /\ \E p \in StoredLineComments(LineCommentsOf(diff_files[i + 1])) :
              RenderedRowCount(LineCommentsOf(diff_files[i + 1])[p[1]][p[2]]) > 1
        /\ Cardinality({k \in DOMAIN FileRows(i) : FileRows(i)[k].kind = "line_comment"}) > 1

\* C15: toggle_reviewed flips the reviewed flag of exactly the current
\* file's review entry and sets dirty; every other entry, the comments, path
\* and status of the entry itself, current_file_idx, selected and
\* scroll_offset are unchanged; with no current file, or one whose display
\* path the session does not track, nothing changes, dirty included.
C15_ToggleFlipsOnlyCurrentFile ==
    [][toggle_reviewed =>
         IF IsSome(current_file_path) /\ current_file_path[1] \in DOMAIN session_files
         THEN LET path == current_file_path[1]
              IN /\ DOMAIN session_files' = DOMAIN session_files
                 /\ session_files'[path].reviewed = ~session_files[path].reviewed
                 /\ session_files'[path].file_comments = session_files[path].file_comments
                 /\ session_files'[path].line_comments = session_files[path].line_comments
                 /\ session_files'[path].path = session_files[path].path
                 /\ session_files'[path].status = session_files[path].status
                 /\ \A q \in DOMAIN session_files \ {path} :
                       session_files'[q] = session_files[q]
                 /\ dirty'
                 /\ UNCHANGED <<diff_files, current_file_idx, selected, scroll_offset>>
         ELSE UNCHANGED <<diff_files, session_files, dirty,
                          current_file_idx, selected, scroll_offset>>
      ]_vars

\* C15 witness: the second file, which holds a comment, has been toggled to
\* reviewed while the first file is not reviewed.
C15_Witness_SecondFileToggled ==
    /\ dirty
    /\ Len(diff_files) > 1
    /\ current_file_idx = 1
    /\ is_file_reviewed(display_path(diff_files[2]))
    /\ ~is_file_reviewed(display_path(diff_files[1]))
    /\ comment_count(session_files[display_path(diff_files[2])]) > 0

-----------------------------------------------------------------------------
(* UndoSpec: the App after App::new with every toggle_reviewed call
   observed.  The first of two consecutive calls on a file records what the
   claim compares: the file's reviewed flag, reviewed_count and the two row
   sequences before it.  Comments are added before the first toggle_reviewed
   only, so that between two consecutive calls there is nothing but
   scrolling and navigation. *)

\* what is recorded before a toggle_reviewed call on the current file
Recorded ==
    [path |-> current_file_path[1],
     calls |-> 1,
     reviewed |-> is_file_reviewed(current_file_path[1]),
     reviewed_count |-> reviewed_count,
     unified |-> render_unified_diff,
     side_by_side |-> render_side_by_side_diff]

\* App::toggle_reviewed, observed: a call that follows a recorded call on the
\* same file is counted as the second, any other call records afresh
toggle_reviewed_observed ==
    /\ toggle_reviewed_body
    /\ IsSome(current_file_path)
    /\ snapshot' =
         IF /\ IsSome(snapshot)
            /\ snapshot[1].calls = 1
            /\ snapshot[1].path = current_file_path[1]
         THEN Some([snapshot[1] EXCEPT !.calls = 2])
         ELSE Some(Recorded)
    /\ UNCHANGED <<updated_at, now, ioVars>>
    /\ UNCHANGED parseVars

UndoNext ==
    \/ toggle_reviewed_observed
    \/ scroll_down(HalfPage)
    \/ scroll_up(HalfPage)
    \/ next_file
    \/ prev_file
    \/ (snapshot = None /\ \E c \in Comments : add_file_comment(c))
    \/ (snapshot = None /\ \E l \in CommentLines, c \in Comments : add_line_comment(l, c))

UndoSpec == Init /\ [][UndoNext]_vars

\* C16: two consecutive toggle_reviewed calls on the same current file, with
\* any scrolling in between and afterwards, return the file's reviewed flag,
\* reviewed_count and the rendered row sequences (the file's diff lines and
\* comments included) to exactly what they were before the first call.
C16_SecondToggleRestores ==
    (IsSome(snapshot) /\ snapshot[1].calls = 2) =>
        /\ is_file_reviewed(snapshot[1].path) = snapshot[1].reviewed
        /\ reviewed_count = snapshot[1].reviewed_count
        /\ render_unified_diff = snapshot[1].unified
        /\ render_side_by_side_diff = snapshot[1].side_by_side

\* C16 witness: a file with hunks and a comment was not reviewed, has been
\* toggled twice, and the view is scrolled.
C16_Witness_ToggledTwice ==
    /\ IsSome(snapshot)
    /\ snapshot[1].calls = 2
    /\ ~snapshot[1].reviewed
    /\ comment_count(session_files[snapshot[1].path]) > 0
    /\ \E k \in DOMAIN snapshot[1].unified : snapshot[1].unified[k].kind = "line_comment"
    /\ scroll_offset > 0


-----------------------------------------------------------------------------
(* ReviewSession driven through its public methods (src/model/review.rs) *)

MaxSessionComments == 3

\* the paths and statuses handed to add_file, and the lines commented on
SessionPaths == {PathOf(1), PathOf(2)}
SessionStatuses == {"Added", "Modified"}
SessionCommentLines == {2, 10}

\* ReviewSession::new: files is empty; no App is built around the session
SessionInit ==
    /\ AppNotConstructed
    /\ ParserIdle

\* ReviewSession::add_file(path, status)
ReviewSession_add_file(path, st) ==
    /\ session_files' = add_file(session_files, path, st)
    /\ UNCHANGED <<diff_files, scroll_offset, current_file_idx, selected, dirty>>
    /\ UNCHANGED auxVars
    /\ UNCHANGED parseVars

\* get_file_mut(path) followed by review.reviewed = !review.reviewed
FlipReviewed(path) ==
    /\ IsSome(get_file_mut(path))
    /\ session_files' = [session_files EXCEPT ![path].reviewed = ~@]
    /\ UNCHANGED <<diff_files, scroll_offset, current_file_idx, selected, dirty>>
    /\ UNCHANGED auxVars
    /\ UNCHANGED parseVars

\* get_file_mut(path) followed by FileReview::add_file_comment(comment)
ReviewSession_add_file_comment(path, comment) ==
    /\ IsSome(get_file_mut(path))
    /\ TotalComments < MaxSessionComments
    /\ session_files' =
         [session_files EXCEPT ![path] = FileReview_add_file_comment(@, comment)]
    /\ UNCHANGED <<diff_files, scroll_offset, current_file_idx, selected, dirty>>
    /\ UNCHANGED auxVars
    /\ UNCHANGED parseVars

\* get_file_mut(path) followed by FileReview::add_line_comment(line, comment)
ReviewSession_add_line_comment(path, line, comment) ==
    /\ IsSome(get_file_mut(path))
    /\ TotalComments < MaxSessionComments
    /\ session_files' =
         [session_files EXCEPT ![path] = FileReview_add_line_comment(@, line, comment)]
    /\ UNCHANGED <<diff_files, scroll_offset, current_file_idx, selected, dirty>>
    /\ UNCHANGED auxVars
    /\ UNCHANGED parseVars

SessionNext ==
    \/ \E path \in SessionPaths, st \in SessionStatuses : ReviewSession_add_file(path, st)
    \/ \E path \in SessionPaths : FlipReviewed(path)
    \/ \E path \in SessionPaths, c \in Comments : ReviewSession_add_file_comment(path, c)
    \/ \E path \in SessionPaths, l \in SessionCommentLines, c \in Comments :
           ReviewSession_add_line_comment(path, l, c)

SessionSpec == SessionInit /\ [][SessionNext]_vars

\* C17: add_file on a path that already has an entry leaves that entry's
\* reviewed flag, status and comments, every other entry and total_files as
\* they were, whatever status is passed; on a path without an entry it adds
\* one unreviewed, comment-free entry with the status passed and total_files
\* grows by one.
C17_AddFileNeverOverwrites ==
    [][\A path \in SessionPaths, st \in SessionStatuses :
          ReviewSession_add_file(path, st) =>
              IF path \in DOMAIN session_files
              THEN /\ session_files'[path] = session_files[path]
                   /\ session_files' = session_files
                   /\ total_files' = total_files
              ELSE /\ DOMAIN session_files' = DOMAIN session_files \cup {path}
                   /\ session_files'[path].reviewed = FALSE
                   /\ session_files'[path].status = st
                   /\ comment_count(session_files'[path]) = 0
                   /\ \A p \in DOMAIN session_files : session_files'[p] = session_files[p]
                   /\ total_files' = total_files + 1]_vars

\* C17 witness: two entries, one of them reviewed and carrying comments, so
\* that a further add_file on its path has something to overwrite.
C17_Witness_ReviewedEntryWithComments ==
    /\ total_files = 2
    /\ \E p \in DOMAIN session_files :
          /\ session_files[p].reviewed
          /\ session_files[p].status = "Added"
          /\ comment_count(session_files[p]) = 2


\* the comments stored on a line of a FileReview (none when the line has no list)
CommentsOnLine(review, line) ==
    IF line \in DOMAIN review.line_comments THEN review.line_comments[line] ELSE <<>>

\* C18: add_file_comment and add_line_comment only append. An add_file_comment
\* puts the comment at the end of file_comments and leaves every per-line list
\* alone; an add_line_comment puts it at the end of that line's list and leaves
\* every other line's list and file_comments alone; either way comment_count
\* grows by exactly one and the other files' reviews are untouched.
C18_CommentsAppendOnly ==
    [][/\ \A path \in SessionPaths, c \in Comments :
            ReviewSession_add_file_comment(path, c) =>
                /\ session_files'[path].file_comments =
                       Append(session_files[path].file_comments, c)
                /\ session_files'[path].line_comments = session_files[path].line_comments
                /\ comment_count(session_files'[path]) =
                       comment_count(session_files[path]) + 1
                /\ \A p \in DOMAIN session_files \ {path} :
                       session_files'[p] = session_files[p]
       /\ \A path \in SessionPaths, l \in SessionCommentLines, c \in Comments :
            ReviewSession_add_line_comment(path, l, c) =>
                /\ CommentsOnLine(session_files'[path], l) =
                       Append(CommentsOnLine(session_files[path], l), c)
                /\ \A m \in SessionCommentLines \ {l} :
                       CommentsOnLine(session_files'[path], m) =
                           CommentsOnLine(session_files[path], m)
                /\ DOMAIN session_files'[path].line_comments =
                       DOMAIN session_files[path].line_comments \cup {l}
                /\ session_files'[path].file_comments = session_files[path].file_comments
                /\ comment_count(session_files'[path]) =
                       comment_count(session_files[path]) + 1
                /\ \A p \in DOMAIN session_files \ {path} :
                       session_files'[p] = session_files[p]]_vars

\* C18 witness: a file holds two different comments on one line next to a
\* comment on another line.
C18_Witness_TwoCommentsOnOneLine ==
    \E p \in DOMAIN session_files :
        /\ Len(CommentsOnLine(session_files[p], 2)) = 2
        /\ CommentsOnLine(session_files[p], 2)[1] # CommentsOnLine(session_files[p], 2)[2]
        /\ Len(CommentsOnLine(session_files[p], 10)) = 1
        /\ comment_count(session_files[p]) = 3


-----------------------------------------------------------------------------
(* Session entries of the changeset's files (App::new, src/app.rs) *)

\* App::file_count
file_count == Len(diff_files)

\* C19: once App::new has built the session, and after any sequence of user
\* actions, every DiffFile's display path has a FileReview entry, so the
\* lookups of is_current_file_reviewed and toggle_reviewed find the current
\* file's entry; and reviewed_count never exceeds file_count.
C19_EveryFileHasReview ==
    /\ \A i \in 1..Len(diff_files) : IsSome(get_file_mut(display_path(diff_files[i])))
    /\ IsSome(current_file_path) => current_file_path[1] \in DOMAIN session_files
    /\ reviewed_count <= file_count

\* C19 witness: after scrolling, toggling and commenting, a changeset of
\* MaxFiles files has every file reviewed.
C19_Witness_AllFilesReviewed ==
    /\ file_count = MaxFiles
    /\ reviewed_count = file_count
    /\ scroll_offset > 0
    /\ \E p \in DOMAIN session_files : comment_count(session_files[p]) > 0


-----------------------------------------------------------------------------
(* The session's modification timestamp (ReviewSession::touch) *)

MaxTime == 3

\* the wall clock read by Utc::now() advances between user actions
Tick ==
    /\ now < MaxTime
    /\ now' = now + 1
    /\ UNCHANGED <<diff_files, session_files, scroll_offset, current_file_idx, selected,
                   dirty, updated_at, snapshot, ioVars>>
    /\ UNCHANGED parseVars

\* ReviewSession::touch: updated_at = Utc::now(). No action calls it: the
\* method has no caller in the crate.
touch == updated_at' = now'

\* the key handlers that reach the session, with time passing between them
ClockNext ==
    \/ toggle_reviewed
    \/ next_file
    \/ prev_file
    \/ scroll_down(HalfPage)
    \/ scroll_up(HalfPage)
    \/ Tick

ClockSpec == Init /\ [][ClockNext]_vars

\* C20: every step that changes the review session (each toggle_reviewed that
\* flips a reviewed flag) also invokes touch(), so updated_at is the time of
\* the last change to the session.
C20_SessionChangeTouches ==
    [][session_files' # session_files => touch]_vars


-----------------------------------------------------------------------------
(* Navigation calls observed one at a time (src/app.rs, src/main.rs) *)

\* the call just made and the navigation state it started from; jumped is
\* the index when the call before it was a jump_to_file that took effect
Called(op, arg) ==
    [op |-> op, arg |-> arg, current_file_idx |-> current_file_idx,
     scroll_offset |-> scroll_offset, selected |-> selected,
     jumped |-> IF /\ IsSome(snapshot)
                   /\ snapshot[1].op = "jump_to_file"
                   /\ snapshot[1].arg < Len(diff_files)
                THEN Some(snapshot[1].arg) ELSE None]

\* one key handler of main.rs, lines 65-77, recorded in snapshot; GoToBottom
\* computes file_count().saturating_sub(1) before it calls jump_to_file
Call(op, arg) ==
    /\ CASE op = "jump_to_file" -> jump_to_file_body(arg)
         [] op = "GoToBottom" -> jump_to_file_body(SatSub(Len(diff_files), 1))
         [] op = "next_file" -> jump_to_file_body(next_file_target)
         [] op = "prev_file" -> jump_to_file_body(prev_file_target)
         [] op = "scroll_down" -> scroll_down_body(arg)
         [] op = "scroll_up" -> scroll_up_body(arg)
         [] op = "toggle_reviewed" -> toggle_reviewed_body
    /\ op # "toggle_reviewed" => UNCHANGED <<session_files, dirty>>
    /\ snapshot' = Some(Called(op, arg))
    /\ UNCHANGED <<diff_files, updated_at, now, ioVars>>
    /\ UNCHANGED parseVars

CallNext ==
    \/ \E idx \in 0..MaxFiles : Call("jump_to_file", idx)
    \/ Call("GoToBottom", 0)
    \/ Call("next_file", 0)
    \/ Call("prev_file", 0)
    \/ \E n \in ScrollAmounts \cup {0} : Call("scroll_down", n)
    \/ \E n \in ScrollAmounts \cup {0} : Call("scroll_up", n)
    \/ Call("toggle_reviewed", 0)

CallSpec == Init /\ [][CallNext]_vars

\* the last call was op
LastCall(op) == IsSome(snapshot) /\ snapshot[1].op = op

\* the navigation state is the one the last call started from
NavigationUnchanged ==
    /\ current_file_idx = snapshot[1].current_file_idx
    /\ scroll_offset = snapshot[1].scroll_offset
    /\ selected = snapshot[1].selected

\* file idx is the current and the selected file
LandedOnFile(idx) ==
    /\ current_file_idx = idx
    /\ selected = idx

\* C21 as stated: on a non-empty changeset jump_to_file(idx) with idx at or
\* past the number of files jumps to the last file.
C21_JumpClampsToLastFile ==
    (LastCall("jump_to_file") /\ snapshot[1].arg >= Len(diff_files))
        => LandedOnFile(Len(diff_files) - 1)

\* C21 amended: jump_to_file(idx) with idx at or past the number of files
\* changes nothing; the clamping is done by its callers, and GoToBottom, which
\* passes file_count - 1, lands on the last file.
C21_JumpIgnoresIndexPastEnd ==
    /\ (LastCall("jump_to_file") /\ snapshot[1].arg >= Len(diff_files))
           => NavigationUnchanged
    /\ (LastCall("jump_to_file") /\ snapshot[1].arg < Len(diff_files))
           => LandedOnFile(snapshot[1].arg)
    /\ LastCall("GoToBottom") => LandedOnFile(Len(diff_files) - 1)

\* C21 witness: jump_to_file was called with the number of files while file 0
\* of two files was current, and file 0 is still current.
C21_Witness_JumpPastEndFromFirstFile ==
    /\ LastCall("jump_to_file")
    /\ Len(diff_files) = 2
    /\ snapshot[1].arg = Len(diff_files)
    /\ current_file_idx = 0


\* C22: next_file jumps to min(current_file_idx + 1, last index) and prev_file
\* to max(current_file_idx - 1, 0), so next_file at the last file and
\* prev_file at file 0 keep that file current; current_file_idx is always a
\* valid index of the changeset.
C22_NextPrevClampedToRange ==
    /\ LastCall("next_file") =>
           LandedOnFile(IF snapshot[1].current_file_idx + 1 <= Len(diff_files) - 1
                        THEN snapshot[1].current_file_idx + 1
                        ELSE Len(diff_files) - 1)
    /\ LastCall("prev_file") =>
           LandedOnFile(IF snapshot[1].current_file_idx - 1 >= 0
                        THEN snapshot[1].current_file_idx - 1
                        ELSE 0)
    /\ current_file_idx \in 0..(Len(diff_files) - 1)

\* C22 witness: next_file was called with the last of two files current,
\* reached by scrolling, and the last file is still current.
C22_Witness_NextFileAtLastFile ==
    /\ LastCall("next_file")
    /\ Len(diff_files) = 2
    /\ snapshot[1].current_file_idx = 1
    /\ snapshot[1].scroll_offset # scroll_offset
    /\ current_file_idx = 1


\* the file owning row offset under the row-count contract: the first file
\* whose cumulative rendered row count exceeds offset, or the last file
OwnerOfRow(offset) ==
    LET owners == {i \in 0..(Len(diff_files) - 1) : RenderedRowsBefore(i + 1) > offset}
    IN IF owners # {}
       THEN CHOOSE i \in owners : \A j \in owners : i <= j
       ELSE Len(diff_files) - 1

\* C23: scroll_up(n) sets scroll_offset to max(0, scroll_offset - n) and
\* scroll_down(n) adds n; afterwards current_file_idx and selected are the
\* index of the first file whose cumulative row count exceeds the new
\* scroll_offset, or the last file when scroll_offset is at or beyond the
\* total row count.
C23_ScrollRederivesCurrentFile ==
    /\ LastCall("scroll_up") =>
           scroll_offset = Max2(0, snapshot[1].scroll_offset - snapshot[1].arg)
    /\ LastCall("scroll_down") =>
           scroll_offset = snapshot[1].scroll_offset + snapshot[1].arg
    /\ (LastCall("scroll_up") \/ LastCall("scroll_down")) =>
           LandedOnFile(OwnerOfRow(scroll_offset))


-----------------------------------------------------------------------------
(* The navigation methods on an App whose changeset is empty *)

\* an App holding an empty diff_files: what lines 57-78 of App::new build
\* from an empty Vec (the git backend itself reports NoChanges instead)
EmptyInit ==
    /\ AppNotConstructed
    /\ ParserIdle

EmptySpec == EmptyInit /\ [][CallNext]_vars

-----------------------------------------------------------------------------
(* The side-by-side aligner on arbitrary hunks (src/ui/app_layout.rs) *)

MaxAlignLines == 4

LineOrigins == {"Context", "Deletion", "Addition"}

\* the lines of a hunk starting at old line 1 / new line 1 whose origins are
\* given, numbered per side as both diff parsers number them
NumberedLines(origins) ==
    [i \in 1..Len(origins) |->
        LET old_ln == 1 + Cardinality({j \in 1..(i - 1) : origins[j] # "Addition"})
            new_ln == 1 + Cardinality({j \in 1..(i - 1) : origins[j] # "Deletion"})
        IN DiffLine(origins[i], "x",
                    IF origins[i] = "Addition" THEN None ELSE Some(old_ln),
                    IF origins[i] = "Deletion" THEN None ELSE Some(new_ln))]

\* a modified text file with one hunk of the given lines
AlignFile(hunk_lines) ==
    DiffFile(Some(PathOf(1)), Some(PathOf(1)), "Modified",
             <<DiffHunk("@@", hunk_lines, 1, 0, 1, 0)>>, FALSE)

AlignChangesets ==
    UNION { { <<AlignFile(NumberedLines(origins))>> : origins \in [1..n -> LineOrigins] }
            : n \in 1..MaxAlignLines }

\* line numbers the comments of the aligned file are stored under
AlignCommentLines == {1, 2}

\* App::new on a changeset of one file with one hunk
AlignInit ==
    /\ diff_files \in AlignChangesets
    /\ session_files = AddAllFiles(<<>>, diff_files)
    /\ scroll_offset = 0
    /\ current_file_idx = 0
    /\ selected = 0
    /\ dirty = FALSE
    /\ updated_at = 0
    /\ now = 0
    /\ snapshot = None
    /\ ProcessIdle
    /\ ParserIdle

AlignNext ==
    \E l \in AlignCommentLines, c \in Comments :
        ReviewSession_add_line_comment(PathOf(1), l, c)

AlignSpec == AlignInit /\ [][AlignNext]_vars

\* the lines of the only hunk, and the rows the side-by-side layout gives it
AlignedLines == diff_files[1].hunks[1].lines
AlignedRows == render_side_by_side_diff

\* first positions of the maximal runs of deletions
DeletionRunStarts ==
    {s \in DOMAIN AlignedLines :
        /\ AlignedLines[s].origin = "Deletion"
        /\ s = 1 \/ AlignedLines[s - 1].origin # "Deletion"}

\* the position after the maximal run of lines of one origin that starts at s
EndOfRun(s, origin) ==
    CHOOSE e \in s..(Len(AlignedLines) + 1) :
        /\ \A j \in s..(e - 1) : AlignedLines[j].origin = origin
        /\ e = Len(AlignedLines) + 1 \/ AlignedLines[e].origin # origin

\* C25: a maximal run of d deletions immediately followed by a maximal run of
\* a additions (a may be 0) produces exactly max(d, a) paired rows: row i
\* shows deletion i on the left iff i < d and addition i on the right iff
\* i < a, the other column being blank.
C25_RunsPairedByPosition ==
    \A s \in DeletionRunStarts :
        LET e == EndOfRun(s, "Deletion")
            f == EndOfRun(e, "Addition")
            d == e - s
            a == f - e
            of_run == SelectSeq(AlignedRows,
                          LAMBDA r : /\ r.kind \notin {"line_comment", "file_header",
                                                       "hunk_header", "separator"}
                                     /\ \/ r.left \in s..(e - 1)
                                        \/ r.right \in e..(f - 1))
        IN of_run = [i \in 1..(IF d >= a THEN d ELSE a) |->
                        SbsRow("pair", 0, 1,
                               IF i <= d THEN s + i - 1 ELSE 0,
                               IF i <= a THEN e + i - 1 ELSE 0)]

\* C25 witness: one of the two examples, 3 deletions + 1 addition or
\* 1 deletion + 3 additions, with a comment stored for the file.
C25_Witness_ThreeAndOne ==
    /\ Len(AlignedLines) = 4
    /\ AlignedLines[1].origin = "Deletion"
    /\ AlignedLines[4].origin = "Addition"
    /\ AlignedLines[2].origin = AlignedLines[3].origin
    /\ AlignedLines[2].origin # "Context"
    /\ TotalComments > 0


\* the additions that belong to the addition run directly behind a deletion run
PairedAdditions ==
    UNION { LET e == EndOfRun(s, "Deletion")
            IN e..(EndOfRun(e, "Addition") - 1) : s \in DeletionRunStarts }

\* the diff rows (comment rows left out) that show hunk line l in a column
RowsShowing(l) ==
    SelectSeq(AlignedRows,
              LAMBDA r : /\ r.kind \in {"pair", "addition", "context"}
                         /\ r.left = l \/ r.right = l)

\* C26: an Addition outside the addition run that directly follows a deletion
\* run renders as its own row, blank on the left and the addition on the
\* right; a Context line renders as one row showing the line in both columns.
C26_StandaloneAdditionAndContextRows ==
    \A l \in DOMAIN AlignedLines :
        /\ (AlignedLines[l].origin = "Addition" /\ l \notin PairedAdditions)
               => RowsShowing(l) = <<SbsRow("addition", 0, 1, 0, l)>>
        /\ AlignedLines[l].origin = "Context"
               => RowsShowing(l) = <<SbsRow("context", 0, 1, l, l)>>

\* C26 witness: an addition after a context line and an addition that
\* precedes a deletion, in a commented hunk.
C26_Witness_AdditionsOutsidePairs ==
    /\ Len(AlignedLines) = 4
    /\ AlignedLines[1].origin = "Context"
    /\ AlignedLines[2].origin = "Addition"
    /\ AlignedLines[3].origin = "Addition"
    /\ AlignedLines[4].origin = "Deletion"
    /\ TotalComments > 1


\* the comments stored under number n whose side is (Old) or is not (New) Old
StoredOnSide(n, side) ==
    LET stored == session_files[PathOf(1)].line_comments
    IN IF IsSome(n) /\ n[1] \in DOMAIN stored
       THEN SelectSeq(stored[n[1]],
                      LAMBDA c : IF side = "Old" THEN c.side = Some("Old")
                                 ELSE c.side # Some("Old"))
       ELSE <<>>

\* the comment rows that belong under a diff row: those of the line in its
\* left column by old number, then those of the line in its right column by
\* new number
CommentsUnderRow(r) ==
    (IF r.left # 0
     THEN CommentRows(StoredOnSide(AlignedLines[r.left].old_lineno, "Old"),
                      SbsRow("line_comment", 0, 1, r.left, 0))
     ELSE <<>>)
    \o (IF r.right # 0
        THEN CommentRows(StoredOnSide(AlignedLines[r.right].new_lineno, "New"),
                         SbsRow("line_comment", 0, 1, 0, r.right))
        ELSE <<>>)

\* C27: every line comment is emitted directly after the row of the line it
\* annotates and before the next diff row: Old-side comments after the row
\* holding the deletion or context line with that old number, New-side
\* comments after the row holding the addition or context line with that new
\* number, the deletion's before the addition's within a paired row.
C27_CommentsFollowTheirRow ==
    LET rows == AlignedRows
    IN \A p \in DOMAIN rows :
          rows[p].kind \in {"pair", "addition", "context"} =>
              LET q == CHOOSE k \in (p + 1)..Len(rows) :
                           /\ rows[k].kind # "line_comment"
                           /\ \A j \in (p + 1)..(k - 1) : rows[j].kind = "line_comment"
              IN SubSeq(rows, p + 1, q - 1) = CommentsUnderRow(rows[p])


-----------------------------------------------------------------------------
(* fetch_context_lines (src/vcs/jj/mod.rs, src/vcs/hg/mod.rs) *)

MaxFileLines == 3

\* str::lines: the pieces between "\n"s, a "\r" directly before a "\n"
\* dropped, no piece for what follows the last "\n" when that is empty
RECURSIVE str_lines_from(_, _, _)
str_lines_from(s, i, piece) ==
    IF i > Len(s) THEN (IF piece = "" THEN <<>> ELSE <<piece>>)
    ELSE IF SubSeq(s, i, i) = "\n"
    THEN <<IF Len(piece) > 0 /\ SubSeq(piece, Len(piece), Len(piece)) = "\r"
           THEN SubSeq(piece, 1, Len(piece) - 1) ELSE piece>>
         \o str_lines_from(s, i + 1, "")
    ELSE str_lines_from(s, i + 1, piece \o SubSeq(s, i, i))

str_lines(s) == str_lines_from(s, 1, "")

\* the text of a file whose lines are given, each line but the last
\* followed by "\n"
RECURSIVE JoinLines(_)
JoinLines(ls) ==
    IF ls = <<>> THEN ""
    ELSE IF Len(ls) = 1 THEN ls[1]
    ELSE ls[1] \o "\n" \o JoinLines(Tail(ls))

\* file texts: up to MaxFileLines lines, CRLF and empty lines among them,
\* with and without a final newline
FileContents ==
    UNION { UNION { {JoinLines(ls), JoinLines(ls) \o "\n"} : ls \in [1..n -> {"a", "b\r", ""}] }
            : n \in 0..MaxFileLines }

\* what is on disk for the file: a modified file (working copy and last
\* commit), a deleted file (last commit only), an added file (working copy only)
FileStates ==
    {[working |-> Some(w), committed |-> Some("old\n")] : w \in FileContents}
    \cup {[working |-> None, committed |-> Some(c)] : c \in FileContents}
    \cup {[working |-> Some(w), committed |-> None] : w \in FileContents}

\* Result<Vec<DiffLine>>
FetchOk(lines) == [ok |-> TRUE, lines |-> lines]
FetchErr == [ok |-> FALSE, lines |-> <<>>]

\* the loop of lines 103-114: one Context DiffLine per line number that the
\* content has
RECURSIVE FetchLoop(_, _, _)
FetchLoop(lines, line_num, end_line) ==
    IF line_num > end_line THEN <<>>
    ELSE (IF line_num - 1 < Len(lines)
          THEN <<DiffLine("Context", lines[line_num], Some(line_num), Some(line_num))>>
          ELSE <<>>)
         \o FetchLoop(lines, line_num + 1, end_line)

\* fetch_context_lines reading the working copy whatever the status
fetch_context_lines_working_copy_only(file_status, start_line, end_line) ==
    IF start_line > end_line \/ start_line = 0 THEN FetchOk(<<>>)
    ELSE LET content == repo[1].working
         IN IF IsNone(content) THEN FetchErr
            ELSE FetchOk(FetchLoop(str_lines(content[1]), start_line, end_line))

\* JjBackend::fetch_context_lines / HgBackend::fetch_context_lines: `jj file
\* show -r @-` / `hg cat -r .` for a Deleted file, read_to_string otherwise,
\* either failing when there is nothing to read
fetch_context_lines(file_status, start_line, end_line) ==
    IF start_line > end_line \/ start_line = 0 THEN FetchOk(<<>>)
    ELSE LET content == IF file_status = "Deleted" THEN repo[1].committed
                        ELSE repo[1].working
         IN IF IsNone(content) THEN FetchErr
            ELSE FetchOk(FetchLoop(str_lines(content[1]), start_line, end_line))

\* a backend in a repository holding one file
FetchInit ==
    /\ diff_files = <<>>
    /\ session_files = <<>>
    /\ scroll_offset = 0
    /\ current_file_idx = 0
    /\ selected = 0
    /\ dirty = FALSE
    /\ updated_at = 0
    /\ now = 0
    /\ snapshot = None
    /\ repo \in {Some(f) : f \in FileStates}
    /\ fetched = None
    /\ outcome = None
    /\ loop_pc = "idle"
    /\ exit_code = None
    /\ should_quit = FALSE
    /\ input_mode = "Normal"
    /\ command_buffer = ""
    /\ saved = None
    /\ ParserIdle

\* one call of fetch_context_lines, recorded with its arguments
FetchContextLines(file_status, start_line, end_line) ==
    /\ fetched' = Some([file_status |-> file_status, start_line |-> start_line,
                        end_line |-> end_line,
                        result |-> fetch_context_lines(file_status, start_line, end_line)])
    /\ UNCHANGED <<diff_files, session_files, scroll_offset, current_file_idx, selected,
                   dirty, updated_at, now, snapshot>>
    /\ UNCHANGED <<repo, outcome, loop_pc, exit_code, should_quit, input_mode,
                   command_buffer, saved>>
    /\ UNCHANGED parseVars

FetchNext ==
    \E file_status \in {"Deleted", "Modified"}, start_line, end_line \in 0..(MaxFileLines + 1) :
        FetchContextLines(file_status, start_line, end_line)

FetchSpec == FetchInit /\ [][FetchNext]_vars

\* C28: fetch_context_lines returns an empty list when start is 0 or
\* start > end; otherwise exactly the file's lines start..min(end, number of
\* lines) in ascending order, each a Context DiffLine whose old and new
\* numbers both equal its 1-based line number, read from the last committed
\* content for a Deleted file and from the working copy otherwise.
C28_FetchReturnsRequestedLines ==
    IsSome(fetched) =>
        LET f == fetched[1]
            source == IF f.file_status = "Deleted" THEN repo[1].committed
                      ELSE repo[1].working
        IN IF f.start_line = 0 \/ f.start_line > f.end_line
           THEN f.result.ok /\ f.result.lines = <<>>
           ELSE IsSome(source) =>
                  LET all == str_lines(source[1])
                      last == IF f.end_line <= Len(all) THEN f.end_line ELSE Len(all)
                      count == IF last >= f.start_line THEN last - f.start_line + 1 ELSE 0
                  IN /\ f.result.ok
                     /\ Len(f.result.lines) = count
                     /\ \A k \in 1..count :
                           LET n == f.start_line + k - 1
                           IN /\ f.result.lines[k].origin = "Context"
                              /\ f.result.lines[k].content = all[n]
                              /\ f.result.lines[k].old_lineno = Some(n)
                              /\ f.result.lines[k].new_lineno = Some(n)

\* C28 witness: lines 2..4 were asked of a Deleted file whose last commit has
\* three lines and whose working copy is gone; lines 2 and 3 came back.
C28_Witness_DeletedFileTail ==
    /\ IsSome(fetched)
    /\ fetched[1].file_status = "Deleted"
    /\ fetched[1].start_line = 2
    /\ fetched[1].end_line = 4
    /\ repo[1].working = None
    /\ Len(fetched[1].result.lines) = 2
    /\ fetched[1].result.lines[1].content # fetched[1].result.lines[2].content


-----------------------------------------------------------------------------
(* Producing the changeset at startup (src/git, src/vcs, src/main.rs) *)

\* Result<Vec<DiffFile>> / Result<App>
Ok(fs) == [ok |-> TRUE, error |-> "", files |-> fs]
Err(e) == [ok |-> FALSE, error |-> e, files |-> <<>>]

\* parse_diff returning the list however short it is
parse_diff_without_empty_check(deltas) == Ok(deltas)

\* git::diff::parse_diff: one DiffFile per delta, NoChanges for none
parse_diff(deltas) ==
    IF deltas = <<>> THEN Err("NoChanges") ELSE Ok(deltas)

\* git::diff::get_working_tree_diff: repo.head()?.peel_to_tree()? fails in a
\* repository without a commit
get_working_tree_diff ==
    IF ~repo[1].head THEN Err("Git") ELSE parse_diff(repo[1].deltas)

\* git::diff::get_commit_range_diff
get_commit_range_diff(commit_ids) ==
    IF commit_ids = 0 THEN Err("NoChanges") ELSE parse_diff(repo[1].deltas)

\* diff_output.trim().is_empty()
IsBlank(text) ==
    \A i \in DOMAIN text : \A j \in 1..Len(text[i]) : SubSeq(text[i], j, j) \in {" ", "\t"}

\* what `jj diff --git` / `hg diff` print: nothing, white space, text without
\* a file section, and the diffs of the parser's tests
DiffOutputs ==
    TestTexts \cup {<<"">>, <<" ", "\t">>, <<"no diff here">>,
                    <<"diff --git a/f b/f", "Binary files a/f and b/f differ">>}

\* what the process is started on: main (App::new on the git working tree),
\* a git range diff, or the working-tree diff of the jj / hg backend
Environments ==
    {[call |-> "main", is_repo |-> r, head |-> h, deltas |-> d, commit_ids |-> 0,
      diff_output |-> <<>>] :
        r \in BOOLEAN, h \in BOOLEAN, d \in Changesets \cup {<<>>}}
    \cup {[call |-> "get_commit_range_diff", is_repo |-> TRUE, head |-> TRUE, deltas |-> d,
           commit_ids |-> n, diff_output |-> <<>>] :
        d \in Changesets \cup {<<>>}, n \in 0..2}
    \cup {[call |-> "jj", is_repo |-> r, head |-> TRUE, deltas |-> <<>>, commit_ids |-> 0,
           diff_output |-> t] :
        r \in BOOLEAN, t \in DiffOutputs}

StartInit ==
    /\ diff_files = <<>>
    /\ session_files = <<>>
    /\ scroll_offset = 0
    /\ current_file_idx = 0
    /\ selected = 0
    /\ dirty = FALSE
    /\ updated_at = 0
    /\ now = 0
    /\ snapshot = None
    /\ repo \in {Some(e) : e \in Environments}
    /\ fetched = None
    /\ outcome = None
    /\ loop_pc = "start"
    /\ exit_code = None
    /\ should_quit = FALSE
    /\ input_mode = "Normal"
    /\ command_buffer = ""
    /\ saved = None
    /\ ParserIdle

StartFrame ==
    /\ UNCHANGED <<scroll_offset, current_file_idx, selected, dirty, updated_at, now,
                   snapshot, repo, fetched, should_quit, input_mode, command_buffer,
                   saved>>

\* RepoInfo::discover / JjBackend::discover / HgBackend::discover
Discover ==
    /\ loop_pc = "start"
    /\ repo[1].call \in {"main", "jj"}
    /\ IF repo[1].is_repo
       THEN loop_pc' = "diff" /\ UNCHANGED outcome
       ELSE /\ outcome' = Some(Err("NotARepository"))
            /\ loop_pc' = IF repo[1].call = "main" THEN "failed" ELSE "returned"
    /\ UNCHANGED <<diff_files, session_files, exit_code>>
    /\ StartFrame
    /\ UNCHANGED parseVars

\* App::new, lines 55-78: the working-tree diff, then the session and the App
AppNew ==
    /\ loop_pc = "diff"
    /\ repo[1].call = "main"
    /\ LET r == get_working_tree_diff
       IN /\ outcome' = Some(r)
          /\ IF r.ok
             THEN /\ diff_files' = r.files
                  /\ session_files' = AddAllFiles(<<>>, r.files)
                  /\ loop_pc' = "render"
             ELSE /\ UNCHANGED <<diff_files, session_files>>
                  /\ loop_pc' = "failed"
    /\ UNCHANGED exit_code
    /\ StartFrame
    /\ UNCHANGED parseVars

\* main, lines 35-39: App::new failed, std::process::exit(1)
MainExitOnError ==
    /\ loop_pc = "failed"
    /\ exit_code' = Some(1)
    /\ loop_pc' = "exited"
    /\ UNCHANGED <<diff_files, session_files, outcome>>
    /\ StartFrame
    /\ UNCHANGED parseVars

\* a call of git::diff::get_commit_range_diff
GitCommitRangeDiff ==
    /\ loop_pc = "start"
    /\ repo[1].call = "get_commit_range_diff"
    /\ outcome' = Some(get_commit_range_diff(repo[1].commit_ids))
    /\ loop_pc' = "returned"
    /\ UNCHANGED <<diff_files, session_files, exit_code>>
    /\ StartFrame
    /\ UNCHANGED parseVars

\* JjBackend / HgBackend::get_working_tree_diff up to the call of
\* parse_unified_diff
BackendDiff ==
    /\ loop_pc = "diff"
    /\ repo[1].call = "jj"
    /\ IF IsBlank(repo[1].diff_output)
       THEN /\ outcome' = Some(Err("NoChanges"))
            /\ loop_pc' = "returned"
            /\ UNCHANGED parseVars
       ELSE /\ diff_text' = repo[1].diff_output
            /\ pc' = "scan"
            /\ loop_pc' = "parsing"
            /\ UNCHANGED <<outcome, pos, files, old_path, new_path, status, hunks, hunk,
                           result>>
    /\ UNCHANGED <<diff_files, session_files, exit_code>>
    /\ StartFrame

\* parse_unified_diff has returned to the backend
BackendReturn ==
    /\ loop_pc = "parsing"
    /\ pc = "done"
    /\ outcome' = Some(IF result = "Ok" THEN Ok(files) ELSE Err("NoChanges"))
    /\ loop_pc' = "returned"
    /\ UNCHANGED <<diff_files, session_files, exit_code>>
    /\ StartFrame
    /\ UNCHANGED parseVars

StartNext ==
    \/ Discover
    \/ AppNew
    \/ MainExitOnError
    \/ GitCommitRangeDiff
    \/ BackendDiff
    \/ BackendReturn
    \/ ParseNext

StartSpec == StartInit /\ [][StartNext]_vars

\* the environment holds no file change for the call made
NoFileChanges ==
    LET e == repo[1]
    IN CASE e.call = "main" -> e.deltas = <<>>
         [] e.call = "get_commit_range_diff" -> e.commit_ids = 0 \/ e.deltas = <<>>
         [] e.call = "jj" ->
              \A i \in DOMAIN e.diff_output : ~StartsWith(e.diff_output[i], "diff --git ")

-----------------------------------------------------------------------------
(* The event loop (src/main.rs, lines 50-145) *)

MaxCommandLen == 4

\* the characters typed into the command line
CommandChars == {"q", "u", "i", "t", "w", " "}

\* the actions map_key_to_action hands to the loop
LoopActions ==
    {"Quit", "NextFile", "ToggleHelp", "EnterCommandMode", "ExitMode", "DeleteChar",
     "SubmitInput", "Other"}

RECURSIVE trim_start(_)
trim_start(s) ==
    IF s # "" /\ SubSeq(s, 1, 1) = " " THEN trim_start(SubSeq(s, 2, Len(s))) ELSE s

RECURSIVE trim_end(_)
trim_end(s) ==
    IF s # "" /\ SubSeq(s, Len(s), Len(s)) = " " THEN trim_end(SubSeq(s, 1, Len(s) - 1)) ELSE s

\* str::trim
trim(s) == trim_end(trim_start(s))

\* the match on the submitted command with the `_` arm quitting as well
command_quits_on_unknown(cmd) == cmd \notin {"w", "write", "e", "export"}

\* the match on the submitted command with "wq" only saving
command_quits_on_q_only(cmd) == cmd \in {"q", "quit"}

\* the arms of `match cmd.as_str()` that set should_quit
command_quits(cmd) == cmd \in {"q", "quit", "wq"}

\* what this iteration of the loop has handled: the action, and for a submit
\* the mode and the command line it was submitted in
Handled(action, c) ==
    [op |-> action, arg |-> c,
     input_mode |-> IF action = "SubmitInput" THEN input_mode ELSE "",
     command_buffer |-> IF action = "SubmitInput" THEN command_buffer ELSE ""]

\* the loop is entered with a text file and a binary file to review
LoopInit ==
    /\ diff_files = <<TextShape(1), BinaryShape(2)>>
    /\ session_files = AddAllFiles(<<>>, diff_files)
    /\ scroll_offset = 0
    /\ current_file_idx = 0
    /\ selected = 0
    /\ dirty = FALSE
    /\ updated_at = 0
    /\ now = 0
    /\ snapshot = None
    /\ repo = None
    /\ fetched = None
    /\ outcome = None
    /\ loop_pc = "render"
    /\ exit_code = None
    /\ should_quit = FALSE
    /\ input_mode = "Normal"
    /\ command_buffer = ""
    /\ saved = None
    /\ ParserIdle

LoopFrame ==
    /\ UNCHANGED <<diff_files, updated_at, now, repo, fetched, outcome>>
    /\ UNCHANGED parseVars

\* terminal.draw(|frame| ui::render(frame, &app))
Render ==
    /\ loop_pc = "render"
    /\ loop_pc' = "poll"
    /\ snapshot' = None
    /\ UNCHANGED <<scroll_offset, current_file_idx, selected, exit_code, should_quit,
                   input_mode, command_buffer, session_files, dirty, saved>>
    /\ LoopFrame

\* event::poll timed out after 100 ms, or the event read was no key
NoKey ==
    /\ loop_pc = "poll"
    /\ loop_pc' = "check"
    /\ UNCHANGED <<scroll_offset, current_file_idx, selected, snapshot, exit_code,
                   should_quit, input_mode, command_buffer, session_files, dirty, saved>>
    /\ LoopFrame

\* match action { ... }
HandleAction(action, c) ==
    /\ loop_pc = "poll"
    /\ loop_pc' = "check"
    /\ snapshot' = Some(Handled(action, c))
    /\ CASE action = "NextFile" -> jump_to_file_body(next_file_target)
         [] action = "ToggleReviewed" -> toggle_reviewed_body
         [] OTHER -> UNCHANGED <<scroll_offset, current_file_idx, selected>>
    /\ action # "ToggleReviewed" => UNCHANGED <<session_files, dirty>>
    \* "w", "write" and "wq" write nothing: lines 119 and 123 are TODOs
    /\ UNCHANGED saved
    /\ should_quit' =
         CASE action = "Quit" -> TRUE
           [] action = "SubmitInput" /\ input_mode = "Command" ->
                IF command_quits(trim(command_buffer)) THEN TRUE ELSE should_quit
           [] OTHER -> should_quit
    /\ input_mode' =
         CASE action = "ToggleHelp" -> IF input_mode = "Help" THEN "Normal" ELSE "Help"
           [] action = "EnterCommandMode" -> "Command"
           [] action \in {"ExitMode", "SubmitInput"} /\ input_mode = "Command" -> "Normal"
           [] OTHER -> input_mode
    /\ command_buffer' =
         CASE action = "EnterCommandMode" -> ""
           [] action \in {"ExitMode", "SubmitInput"} /\ input_mode = "Command" -> ""
           [] action = "InsertChar" /\ input_mode = "Command" -> command_buffer \o c
           [] action = "DeleteChar" /\ input_mode = "Command" ->
                SubSeq(command_buffer, 1, SatSub(Len(command_buffer), 1))
           [] OTHER -> command_buffer
    /\ UNCHANGED exit_code
    /\ LoopFrame

\* if app.should_quit { break; }, then the terminal is restored and main
\* returns Ok(())
CheckQuit ==
    /\ loop_pc = "check"
    /\ IF should_quit
       THEN loop_pc' = "exited" /\ exit_code' = Some(0)
       ELSE loop_pc' = "render" /\ UNCHANGED exit_code
    /\ UNCHANGED <<scroll_offset, current_file_idx, selected, snapshot, should_quit,
                   input_mode, command_buffer, session_files, dirty, saved>>
    /\ LoopFrame

LoopNext ==
    \/ Render
    \/ NoKey
    \/ \E action \in LoopActions : HandleAction(action, "")
    \/ \E c \in CommandChars :
          /\ input_mode = "Command" => Len(command_buffer) < MaxCommandLen
          /\ HandleAction("InsertChar", c)
    \/ CheckQuit

LoopSpec == LoopInit /\ [][LoopNext]_vars

\* the step has handled Action::Quit or a submitted q, quit or wq
QuitProcessed ==
    /\ loop_pc = "poll"
    /\ IsSome(snapshot')
    /\ \/ snapshot'[1].op = "Quit"
       \/ /\ snapshot'[1].op = "SubmitInput"
          /\ snapshot'[1].input_mode = "Command"
          /\ trim(snapshot'[1].command_buffer) \in {"q", "quit", "wq"}

\* C30: once Action::Quit or a submitted q, quit or wq is processed,
\* should_quit is true and is never reset, and the loop exits at the end of
\* that iteration: the only step left is the break, with no render and no
\* further event handled.
C30_QuitEndsTheLoop ==
    [][/\ QuitProcessed => (should_quit' /\ loop_pc' = "check")
       /\ should_quit =>
             /\ should_quit'
             /\ loop_pc = "check"
             /\ loop_pc' = "exited"
             /\ UNCHANGED <<snapshot, scroll_offset, current_file_idx, selected,
                            input_mode, command_buffer>>]_vars

\* C30 witness: the loop has exited after `wq` was submitted with white space
\* around it.
C30_Witness_ExitedAfterWq ==
    /\ loop_pc = "exited"
    /\ should_quit
    /\ snapshot[1].op = "SubmitInput"
    /\ snapshot[1].command_buffer = " wq "


-----------------------------------------------------------------------------
(* Reviewing and writing in the event loop (src/main.rs, lines 78 and 113-136) *)

\* the characters of the write commands typed here
SaveChars == {"w", "q"}

SaveActions == {"ToggleReviewed", "NextFile", "EnterCommandMode", "SubmitInput"}

SaveNext ==
    \/ Render
    \/ NoKey
    \/ \E action \in SaveActions : HandleAction(action, "")
    \/ \E c \in SaveChars :
          /\ input_mode = "Command" => Len(command_buffer) < MaxCommandLen
          /\ HandleAction("InsertChar", c)
    \/ CheckQuit

SaveSpec == LoopInit /\ [][SaveNext]_vars

\* this iteration has handled a submitted w, write or wq
WriteSubmitted ==
    /\ IsSome(snapshot)
    /\ snapshot[1].op = "SubmitInput"
    /\ snapshot[1].input_mode = "Command"
    /\ trim(snapshot[1].command_buffer) \in {"w", "write", "wq"}

\* C31: a submitted write command (w, write or wq) saves the in-memory review
\* state, and after wq the save has happened before the loop exits: what is
\* on disk is the session as it is in memory, reviewed flags included.
C31_WriteCommandsSave ==
    WriteSubmitted => saved = Some(session_files)


-----------------------------------------------------------------------------
(* Placement of comments without a side, in both layouts *)

\* the line comments of the only file
AlignedLineComments == session_files[PathOf(1)].line_comments

\* the same comments with those that carry no side taken out
WithoutSideless(line_comments) ==
    [n \in DOMAIN line_comments |->
        SelectSeq(line_comments[n], LAMBDA c : c.side # None)]

\* number of rows the side-less comments stored under line number n render to
SidelessRowsAt(n) ==
    IF n \in DOMAIN AlignedLineComments
    THEN Len(CommentRows(SelectSeq(AlignedLineComments[n], LAMBDA c : c.side = None), "row"))
    ELSE 0

CountRows(rows, row) == Cardinality({k \in DOMAIN rows : rows[k] = row})

\* C32: a line comment without a side is placed as a New-side comment: in
\* both layouts the rows it adds are under the line whose new line number is
\* the comment's line number, and none are added under a deletion row or in
\* the old column.
C32_SidelessCommentsOnNewSide ==
    LET hunk_lines == AlignedLines
        stored == AlignedLineComments
        sided == WithoutSideless(stored)
        unified == HunkRows(0, 1, diff_files[1].hunks[1], stored)
        unified_sided == HunkRows(0, 1, diff_files[1].hunks[1], sided)
        columns == render_hunk_lines_side_by_side(0, 1, hunk_lines, stored, 1)
        columns_sided == render_hunk_lines_side_by_side(0, 1, hunk_lines, sided, 1)
    IN \A l \in DOMAIN hunk_lines :
          LET expected == IF IsSome(hunk_lines[l].new_lineno)
                          THEN SidelessRowsAt(hunk_lines[l].new_lineno[1])
                          ELSE 0
          IN /\ CountRows(unified, Row("line_comment", 0, 1, l))
                   = CountRows(unified_sided, Row("line_comment", 0, 1, l)) + expected
             /\ CountRows(columns, SbsRow("line_comment", 0, 1, 0, l))
                   = CountRows(columns_sided, SbsRow("line_comment", 0, 1, 0, l)) + expected
             /\ CountRows(columns, SbsRow("line_comment", 0, 1, l, 0))
                   = CountRows(columns_sided, SbsRow("line_comment", 0, 1, l, 0))

\* C32 witness: a side-less comment on line 1 of a hunk in which a deletion
\* has old number 1 and a later line has new number 1.
C32_Witness_SidelessOnSharedNumber ==
    /\ Len(AlignedLines) >= 2
    /\ AlignedLines[1].origin = "Deletion"
    /\ \E l \in DOMAIN AlignedLines : AlignedLines[l].new_lineno = Some(1)
    /\ SidelessRowsAt(1) > 0


-----------------------------------------------------------------------------
(* MalformedSpec: parse_unified_diff over file sections whose hunks declare
   counts their bodies do not have, or carry a header that does not parse *)

MalformedBodies == {<<"+x">>, <<"-x", " x">>, <<" x", "+x", "-x">>}

\* a combined-diff header and a header cut short
BadHeaders == {"@@@ -1 -1 +1 @@@", "@@ -1"}

\* declared count minus the count of the body: exact, one short, one over
CountErrors == {0 - 1, 0, 1}

\* a hunk as written: its header, whether the header parses and to what, and
\* its body
WrittenHunks ==
    { [header |-> HunkHeaderText(5, OldSideCount(b) + e, 7, NewSideCount(b) + e),
       parses |-> TRUE,
       old_start |-> 5, old_count |-> OldSideCount(b) + e,
       new_start |-> 7, new_count |-> NewSideCount(b) + e,
       body |-> b] :
        <<b, e>> \in {t \in MalformedBodies \X CountErrors :
                         OldSideCount(t[1]) + t[2] >= 0 /\ NewSideCount(t[1]) + t[2] >= 0} }
    \cup { [header |-> h, parses |-> FALSE, old_start |-> 0, old_count |-> 0,
            new_start |-> 0, new_count |-> 0, body |-> b] :
             h \in BadHeaders, b \in MalformedBodies }

\* a written input: the hunks of file f, followed or not by the section of a
\* second file g with one well-formed hunk
WrittenInputs ==
    { [hunks |-> hs, second |-> g] :
        hs \in UNION { [1..n -> WrittenHunks] : n \in 1..2 }, g \in BOOLEAN }

SecondSection ==
    <<"diff --git a/g b/g", "--- a/g", "+++ b/g", "@@ -1 +1 @@", "-x", "+x">>

TextOf(input) ==
    <<"diff --git a/f b/f", "--- a/f", "+++ b/f">>
    \o Flatten([k \in 1..Len(input.hunks) |->
                   <<input.hunks[k].header>> \o input.hunks[k].body])
    \o (IF input.second THEN SecondSection ELSE <<>>)

MalformedTexts == {TextOf(input) : input \in WrittenInputs}

MalformedInit ==
    /\ diff_text \in MalformedTexts
    /\ pos = 0
    /\ pc = "scan"
    /\ files = <<>>
    /\ old_path = None
    /\ new_path = None
    /\ status = "Modified"
    /\ hunks = <<>>
    /\ hunk = NoHunk
    /\ result = "none"
    /\ AppNotConstructed

MalformedSpec == MalformedInit /\ [][ParseNext]_vars

\* the lines a written body stands for, numbered from the declared starts
BodyLines(body, old_start, new_start) ==
    [i \in 1..Len(body) |->
        LET origin == CASE StartsWith(body[i], "+") -> "Addition"
                        [] StartsWith(body[i], "-") -> "Deletion"
                        [] OTHER -> "Context"
            old_ln == old_start + OldSideCount(SubSeq(body, 1, i - 1))
            new_ln == new_start + NewSideCount(SubSeq(body, 1, i - 1))
        IN DiffLine(origin, SubSeq(body[i], 2, Len(body[i])),
                    IF origin = "Addition" THEN None ELSE Some(old_ln),
                    IF origin = "Deletion" THEN None ELSE Some(new_ln))]

\* the files a written input stands for: every hunk whose header parses, with
\* all the lines of its body, and the second file untouched
FilesOf(input) ==
    LET parsing == SelectSeq(input.hunks, LAMBDA w : w.parses)
    IN <<DiffFile(Some("f"), Some("f"), "Modified",
                  [k \in 1..Len(parsing) |->
                      DiffHunk(parsing[k].header,
                               BodyLines(parsing[k].body, parsing[k].old_start,
                                         parsing[k].new_start),
                               parsing[k].old_start, parsing[k].old_count,
                               parsing[k].new_start, parsing[k].new_count)],
                  FALSE)>>
       \o (IF input.second
           THEN <<DiffFile(Some("g"), Some("g"), "Modified",
                           <<DiffHunk("@@ -1 +1 @@", BodyLines(<<"-x", "+x">>, 1, 1),
                                      1, 1, 1, 1)>>, FALSE)>>
           ELSE <<>>)

\* C33: the parser degrades gracefully on malformed hunks: a hunk whose body
\* holds fewer or more lines than declared is returned with the lines that
\* were parsed, a hunk whose header does not parse is dropped while its file
\* is kept, and the parse returns Ok with all other hunks and files.
C33_MalformedHunksDegrade ==
    pc = "done" =>
        \A input \in WrittenInputs :
            diff_text = TextOf(input) => (result = "Ok" /\ files = FilesOf(input))

\* C33 witness: the parse of a text whose first hunk header does not parse,
\* whose second hunk declares more lines than its body holds, and which goes
\* on with a second file, has returned.
C33_Witness_DroppedAndShortHunk ==
    /\ pc = "done"
    /\ diff_text[4] \in BadHeaders
    /\ Len(files) = 2
    /\ Len(files[1].hunks) = 1
    /\ files[1].hunks[1].old_count > Len(files[1].hunks[1].lines)


-----------------------------------------------------------------------------
(* jump_to_file followed by a scroll of nothing *)

\* the last call re-derived the current file right after a jump_to_file
RederivedAfterJump ==
    /\ IsSome(snapshot)
    /\ snapshot[1].op \in {"scroll_down", "scroll_up"}
    /\ snapshot[1].arg = 0
    /\ IsSome(snapshot[1].jumped)

\* C34: immediately after jump_to_file(idx) with a valid idx, re-deriving the
\* current file from scroll_offset (scroll_down(0) or scroll_up(0)) yields
\* idx again and leaves current_file_idx, selected and scroll_offset
\* unchanged, whatever the changeset and the reviewed flags.
C34_JumpAgreesWithScroll ==
    RederivedAfterJump =>
        /\ current_file_idx = snapshot[1].jumped[1]
        /\ selected = snapshot[1].jumped[1]
        /\ current_file_idx = snapshot[1].current_file_idx
        /\ selected = snapshot[1].selected
        /\ scroll_offset = snapshot[1].scroll_offset

\* C34 witness: scroll_down(0) right after a jump to the last of several
\* files, the first of which is marked reviewed.
C34_Witness_RederivedPastReviewedFile ==
    /\ RederivedAfterJump
    /\ snapshot[1].op = "scroll_down"
    /\ snapshot[1].jumped[1] = Len(diff_files) - 1
    /\ Len(diff_files) > 1
    /\ is_file_reviewed(display_path(diff_files[1]))


-----------------------------------------------------------------------------
(* The scan of render_hunk_lines_side_by_side *)

\* the value of i after the iteration of the loop that starts at position i
\* (1-based): lines 612, 625 and 635
ScanStep(hunk_lines, i) ==
    IF hunk_lines[i].origin = "Deletion"
    THEN render_deletion_addition_pair_side_by_side(0, 1, hunk_lines, i, <<>>).lines_processed
    ELSE i + 1

\* the rows among `rows` that show hunk lines, comment rows left out
DiffRowsOf(rows) ==
    SelectSeq(rows, LAMBDA r : r.kind \in {"pair", "addition", "context"})

\* the positions of the hunk lines that belong to a column, in hunk order
LinesNotOf(hunk_lines, origin) ==
    SelectSeq([l \in DOMAIN hunk_lines |-> l], LAMBDA l : hunk_lines[l].origin # origin)

\* C35: the side-by-side scan of a hunk terminates and is lossless: the scan
\* index strictly increases on each step and stays within the hunk, and every
\* hunk line is rendered exactly once, deletions and context lines on the
\* left and additions and context lines on the right in their original
\* order, a context line in both columns of one row.
C35_ScanTerminatesAndIsLossless ==
    LET hunk_lines == AlignedLines
        diff_rows == DiffRowsOf(AlignedRows)
        left_column == SelectSeq([k \in DOMAIN diff_rows |-> diff_rows[k].left],
                                 LAMBDA l : l # 0)
        right_column == SelectSeq([k \in DOMAIN diff_rows |-> diff_rows[k].right],
                                  LAMBDA l : l # 0)
    IN /\ \A i \in DOMAIN hunk_lines :
             /\ ScanStep(hunk_lines, i) > i
             /\ ScanStep(hunk_lines, i) <= Len(hunk_lines) + 1
       /\ left_column = LinesNotOf(hunk_lines, "Addition")
       /\ right_column = LinesNotOf(hunk_lines, "Deletion")
       /\ \A k \in DOMAIN diff_rows :
             (diff_rows[k].left # 0 /\ hunk_lines[diff_rows[k].left].origin = "Context")
                => diff_rows[k].right = diff_rows[k].left

\* C35 witness: a hunk of two deletions, one addition and a context line,
\* with a comment stored for the file.
C35_Witness_UnevenPairThenContext ==
    /\ Len(AlignedLines) = 4
    /\ AlignedLines[1].origin = "Deletion"
    /\ AlignedLines[2].origin = "Deletion"
    /\ AlignedLines[3].origin = "Addition"
    /\ AlignedLines[4].origin = "Context"
    /\ TotalComments > 0


-----------------------------------------------------------------------------
(* Command entry in the event loop *)

\* the step handles the given action
Handles(action) ==
    /\ loop_pc = "poll"
    /\ IsSome(snapshot')
    /\ snapshot'[1].op = action

\* C36: submitting input in Command mode always leaves the app in Normal mode
\* with an empty command buffer; an unrecognised command does not set
\* should_quit (nor touch the position or the session); and InsertChar,
\* DeleteChar, SubmitInput and ExitMode change nothing when the input mode is
\* not Command.
C36_CommandModeDiscipline ==
    [][/\ (Handles("SubmitInput") /\ input_mode = "Command") =>
             /\ input_mode' = "Normal"
             /\ command_buffer' = ""
             /\ trim(command_buffer) \notin {"q", "quit", "w", "write", "wq", "e", "export"} =>
                   UNCHANGED <<should_quit, scroll_offset, current_file_idx, selected,
                               session_files, dirty, saved, exit_code>>
       /\ ((\E action \in {"InsertChar", "DeleteChar", "SubmitInput", "ExitMode"} :
               Handles(action)) /\ input_mode # "Command") =>
             UNCHANGED <<input_mode, command_buffer, should_quit, scroll_offset,
                         current_file_idx, selected, session_files, dirty, saved,
                         exit_code>>]_vars

\* C36 witness: the unrecognised command `qu` has been submitted in Command
\* mode and the app is back in Normal mode, not quitting.
C36_Witness_UnknownCommandSubmitted ==
    /\ loop_pc = "check"
    /\ IsSome(snapshot)
    /\ snapshot[1].op = "SubmitInput"
    /\ snapshot[1].input_mode = "Command"
    /\ snapshot[1].command_buffer = "qu"
    /\ input_mode = "Normal"
    /\ ~should_quit


-----------------------------------------------------------------------------
(* HeaderSpec: parse_unified_diff over file sections written for given paths *)

\* paths of the files written: plain ones, and ones under a directory named
\* a or b
HeaderPaths == {"f", "src/f", "ab", "a/f", "b/f", "a/a/f", "b/a"}

\* a written file section: its path, and which of the two sides exist
WrittenHeaders ==
    { [path |-> p, old |-> o, new |-> n] :
        p \in HeaderPaths, <<o, n>> \in {<<TRUE, TRUE>>, <<FALSE, TRUE>>, <<TRUE, FALSE>>} }

HeaderTextOf(w) ==
    <<"diff --git a/" \o w.path \o " b/" \o w.path,
      IF w.old THEN "--- a/" \o w.path ELSE "--- /dev/null",
      IF w.new THEN "+++ b/" \o w.path ELSE "+++ /dev/null",
      "@@ -1 +1 @@", "-x", "+x">>

HeaderInit ==
    /\ diff_text \in {HeaderTextOf(w) : w \in WrittenHeaders}
    /\ pos = 0
    /\ pc = "scan"
    /\ files = <<>>
    /\ old_path = None
    /\ new_path = None
    /\ status = "Modified"
    /\ hunks = <<>>
    /\ hunk = NoHunk
    /\ result = "none"
    /\ AppNotConstructed

HeaderSpec == HeaderInit /\ [][ParseNext]_vars

\* C37: for every file path p, `--- a/<p>` yields old_path = p and
\* `+++ b/<p>` yields new_path = p, only the single a/ or b/ prefix being
\* removed also when p itself begins with a/ or b/, and /dev/null yields an
\* absent path.
C37_HeaderPathsAsWritten ==
    pc = "done" =>
        \A w \in WrittenHeaders :
            diff_text = HeaderTextOf(w) =>
                /\ Len(files) = 1
                /\ files[1].old_path = (IF w.old THEN Some(w.path) ELSE None)
                /\ files[1].new_path = (IF w.new THEN Some(w.path) ELSE None)

====
